---- MODULE Spec2Model ----
(***************************************************************************)
(* A model of the libcanard core (libcanard/canard.c): the transmission    *)
(* pipeline (CAN-ID encoding, single- and multi-frame segmentation, the    *)
(* priority-ordered TX queue kept as a singly-linked list of heap blocks)  *)
(* and the reception pipeline (frame parsing, subscriptions, sessions).    *)
(* The heap is explicit: every block is obtained from memory_allocate and  *)
(* returned through memory_free, and each API call records the pointers it *)
(* obtained and released.                                                  *)
(***************************************************************************)
EXTENDS Integers, Sequences, FiniteSets, TLC

\* ------------------------------------------------------------ bounds

\* Number of blocks the user-supplied allocator can hand out at a time.
MaxAlloc == 3

\* ------------------------------------------------------------ constants of canard.c

TAIL_START_OF_TRANSFER == 128
TAIL_END_OF_TRANSFER == 64
TAIL_TOGGLE == 32
CAN_EXT_ID_MASK == 536870911
BITS_PER_BYTE == 8
BYTE_MAX == 255
PADDING_BYTE == 0
CRC_INITIAL == 65535
CRC_SIZE_BYTES == 2
OFFSET_PRIORITY == 26
OFFSET_SUBJECT_ID == 8
OFFSET_SERVICE_ID == 14
OFFSET_DST_NODE_ID == 7
FLAG_SERVICE_NOT_MESSAGE == 33554432
FLAG_ANONYMOUS_MESSAGE == 16777216
FLAG_REQUEST_NOT_RESPONSE == 16777216
FLAG_RESERVED_23 == 8388608
FLAG_RESERVED_07 == 128

\* ------------------------------------------------------------ constants of canard.h

CANARD_ERROR_INVALID_ARGUMENT == 2
CANARD_ERROR_OUT_OF_MEMORY == 3
CANARD_MTU_CAN_CLASSIC == 8
CANARD_MTU_CAN_FD == 64
CANARD_SUBJECT_ID_MAX == 8191
CANARD_SERVICE_ID_MAX == 511
CANARD_NODE_ID_MAX == 127
CANARD_PRIORITY_MAX == 7
CANARD_TRANSFER_ID_MAX == 31
CANARD_NODE_ID_UNSET == 128
CANARD_NUM_TRANSFER_KINDS == 3
CanardTransferKindMessage == 0
CanardTransferKindResponse == 1
CanardTransferKindRequest == 2

\* The null pointer; heap addresses are 1..MaxAlloc.
NULL == 0

\* ------------------------------------------------------------ C integer arithmetic

Pow2(n) == 2 ^ n

RECURSIVE BitAnd(_, _)
BitAnd(a, b) ==
    IF a = 0 \/ b = 0 THEN 0
    ELSE (IF a % 2 = 1 /\ b % 2 = 1 THEN 1 ELSE 0) + 2 * BitAnd(a \div 2, b \div 2)

RECURSIVE BitOr(_, _)
BitOr(a, b) ==
    IF a = 0 THEN b
    ELSE IF b = 0 THEN a
    ELSE (IF a % 2 = 1 \/ b % 2 = 1 THEN 1 ELSE 0) + 2 * BitOr(a \div 2, b \div 2)

RECURSIVE BitXor(_, _)
BitXor(a, b) ==
    IF a = 0 THEN b
    ELSE IF b = 0 THEN a
    ELSE (((a % 2) + (b % 2)) % 2) + 2 * BitXor(a \div 2, b \div 2)

\* A left shift of a uint32_t. The code shifts only fields it has range-checked, so no
\* bit is lost beyond bit 31 and the value stays below 2^31.
Shl32(a, n) == a * Pow2(n)
Shl16(a, n) == (a * Pow2(n)) % Pow2(16)
Shr(a, n) == a \div Pow2(n)

MinOf(a, b) == IF a < b THEN a ELSE b

\* ------------------------------------------------------------ transfer CRC

RECURSIVE crcShift(_, _)
crcShift(out, i) ==
    IF i = BITS_PER_BYTE THEN out
    ELSE IF BitAnd(out, 32768) # 0
         THEN crcShift(BitXor(Shl16(out, 1), 4129), i + 1)
         ELSE crcShift(Shl16(out, 1), i + 1)

\* A step that adds the byte to the low byte of the CRC.
crcAddByteLow(crc, byte) == crcShift(BitXor(crc, byte), 0)

crcAddByte(crc, byte) == crcShift(BitXor(crc, Shl16(byte, BITS_PER_BYTE)), 0)

\* The loop of crcAdd over the bytes lo..hi of data, in order; the range is halved so that
\* the depth of the evaluation grows with the logarithm of its length. A CRC is never
\* negative: the comparison makes the evaluation of crc precede that of the bytes behind it.
RECURSIVE crcAddRange(_, _, _, _)
crcAddRange(crc, data, lo, hi) ==
    IF lo > hi \/ crc < 0 THEN crc
    ELSE IF lo = hi THEN crcAddByte(crc, data[lo])
    ELSE crcAddRange(crcAddRange(crc, data, lo, (lo + hi) \div 2), data, ((lo + hi) \div 2) + 1, hi)

crcAddFrom(crc, data, i) == crcAddRange(crc, data, i, Len(data))

Pattern(n) == [i \in 1..n |-> ((i * 37) % 255) + 1]
Repeat(n, b) == [i \in 1..n |-> b]

\* The payloads the callers of this model hand to the library.
Payloads ==
    { <<>>, <<1>>, <<170, 187>>, <<16, 32, 48>>, Pattern(7), Pattern(8), Pattern(12), Pattern(13),
      Pattern(14), Pattern(63), Pattern(64), Repeat(100, 90), Pattern(125) }

\* crcAdd(CRC_INITIAL, p) of every payload p, computed once instead of at every call.
PayloadCRC == { <<p, crcAddFrom(CRC_INITIAL, p, 1)>> : p \in Payloads }

crcAdd(crc, data) ==
    IF crc = CRC_INITIAL /\ data \in Payloads
    THEN (CHOOSE e \in PayloadCRC : e[1] = data)[2]
    ELSE crcAddFrom(crc, data, 1)

\* ------------------------------------------------------------ DLC tables

CanardCANDLCToLength == <<0, 1, 2, 3, 4, 5, 6, 7, 8, 12, 16, 20, 24, 32, 48, 64>>

\* A table that rounds the lengths 9 to 11 down to DLC 8 instead of up to DLC 9.
CanardCANLengthToDLCFloor ==
    <<0, 1, 2, 3, 4, 5, 6, 7, 8,
      8, 8, 8, 9,
      10, 10, 10, 10,
      11, 11, 11, 11,
      12, 12, 12, 12,
      13, 13, 13, 13, 13, 13, 13, 13,
      14, 14, 14, 14, 14, 14, 14, 14, 14, 14, 14, 14, 14, 14, 14, 14,
      15, 15, 15, 15, 15, 15, 15, 15, 15, 15, 15, 15, 15, 15, 15, 15>>

CanardCANLengthToDLC ==
    <<0, 1, 2, 3, 4, 5, 6, 7, 8,
      9, 9, 9, 9,
      10, 10, 10, 10,
      11, 11, 11, 11,
      12, 12, 12, 12,
      13, 13, 13, 13, 13, 13, 13, 13,
      14, 14, 14, 14, 14, 14, 14, 14, 14, 14, 14, 14, 14, 14, 14, 14,
      15, 15, 15, 15, 15, 15, 15, 15, 15, 15, 15, 15, 15, 15, 15, 15>>

\* C arrays are indexed from 0, TLA+ sequences from 1.
DLCToLengthAt(d) == CanardCANDLCToLength[d + 1]
LengthToDLCAt(x) == CanardCANLengthToDLC[x + 1]

\* A frame size that is not rounded up to a DLC.
roundFramePayloadSizeExact(x) == x

roundFramePayloadSizeUp(x) == DLCToLengthAt(LengthToDLCAt(x))

\* An MTU that keeps two bytes of every frame back instead of one.
getPresentationLayerMTULessTwo(mtu_bytes) ==
    LET max_index == Len(CanardCANLengthToDLC) - 1
        mtu == IF mtu_bytes < CANARD_MTU_CAN_CLASSIC THEN CANARD_MTU_CAN_CLASSIC
               ELSE IF mtu_bytes <= max_index THEN DLCToLengthAt(LengthToDLCAt(mtu_bytes))
               ELSE DLCToLengthAt(LengthToDLCAt(max_index))
    IN mtu - 2

getPresentationLayerMTU(mtu_bytes) ==
    LET max_index == Len(CanardCANLengthToDLC) - 1
        mtu == IF mtu_bytes < CANARD_MTU_CAN_CLASSIC THEN CANARD_MTU_CAN_CLASSIC
               ELSE IF mtu_bytes <= max_index THEN DLCToLengthAt(LengthToDLCAt(mtu_bytes))
               ELSE DLCToLengthAt(LengthToDLCAt(max_index))
    IN mtu - 1

\* ------------------------------------------------------------ session specifier

\* A session specifier that leaves the source node-ID out.
makeMessageSessionSpecifierNoSource(subject_id, src_node_id) ==
    Shl32(subject_id, OFFSET_SUBJECT_ID)

makeMessageSessionSpecifier(subject_id, src_node_id) ==
    BitOr(src_node_id, Shl32(subject_id, OFFSET_SUBJECT_ID))

\* A service session specifier whose request flag is left out.
makeServiceSessionSpecifierNoRequestFlag(service_id, request_not_response, src_node_id, dst_node_id) ==
    BitOr(BitOr(BitOr(src_node_id, Shl32(dst_node_id, OFFSET_DST_NODE_ID)),
                Shl32(service_id, OFFSET_SERVICE_ID)),
          FLAG_SERVICE_NOT_MESSAGE)

makeServiceSessionSpecifier(service_id, request_not_response, src_node_id, dst_node_id) ==
    BitOr(BitOr(BitOr(BitOr(src_node_id, Shl32(dst_node_id, OFFSET_DST_NODE_ID)),
                      Shl32(service_id, OFFSET_SERVICE_ID)),
                IF request_not_response THEN FLAG_REQUEST_NOT_RESPONSE ELSE 0),
          FLAG_SERVICE_NOT_MESSAGE)

\* ------------------------------------------------------------ memory

Addrs == 1..MaxAlloc

FreeBlock == [t |-> "free"]
RawBlock == [t |-> "raw"]

\* The work record of one API call: the instance's memory as the call sees it, the
\* pointers memory_allocate returned (NULL included), the non-null pointers passed to
\* memory_free (each with whether it was a live block), the 1-based index of the
\* allocation the allocator refuses (0: none), the value returned, and the caller's
\* out_transfer (<<>> until the call writes it).
Work(h, q, rs, sb, fail) ==
    [heap |-> h, tx_queue |-> q, rx_subscriptions |-> rs, subs |-> sb,
     allocs |-> <<>>, frees |-> <<>>, fail |-> fail, ret |-> 0, out_transfer |-> <<>>]

\* ins->memory_allocate: the user's allocator may refuse any request, and refuses
\* when no block is left.
memory_allocate(m) ==
    LET k == Len(m.allocs) + 1
        avail == {a \in Addrs : m.heap[a].t = "free"}
        p == IF k = m.fail \/ avail = {} THEN NULL
             ELSE CHOOSE a \in avail : \A b \in avail : a <= b
    IN [m EXCEPT !.allocs = Append(@, p),
                 !.heap = IF p = NULL THEN @ ELSE [@ EXCEPT ![p] = RawBlock]]

LastAlloc(m) == m.allocs[Len(m.allocs)]

\* ins->memory_free
memory_free(m, p) ==
    IF p = NULL THEN m
    ELSE [m EXCEPT !.frees = Append(@, [ptr |-> p, live |-> m.heap[p].t # "free"]),
                   !.heap = [@ EXCEPT ![p] = FreeBlock]]

\* ------------------------------------------------------------ transmission

\* A CAN-ID made without the check of the priority.
makeCANIDAnyPriority(tr, local_node_id, presentation_layer_mtu) ==
    LET spec ==
            IF tr.transfer_kind = CanardTransferKindMessage
               /\ CANARD_NODE_ID_UNSET = tr.remote_node_id
               /\ tr.port_id <= CANARD_SUBJECT_ID_MAX
            THEN IF local_node_id <= CANARD_NODE_ID_MAX
                 THEN makeMessageSessionSpecifier(tr.port_id, local_node_id)
                 ELSE IF tr.payload_size <= presentation_layer_mtu
                 THEN LET c == BitAnd(crcAdd(CRC_INITIAL, SubSeq(tr.payload, 1, tr.payload_size)),
                                      CANARD_NODE_ID_MAX)
                      IN BitOr(makeMessageSessionSpecifier(tr.port_id, c), FLAG_ANONYMOUS_MESSAGE)
                 ELSE -CANARD_ERROR_INVALID_ARGUMENT
            ELSE IF (tr.transfer_kind = CanardTransferKindRequest
                     \/ tr.transfer_kind = CanardTransferKindResponse)
                    /\ tr.remote_node_id <= CANARD_NODE_ID_MAX
                    /\ tr.port_id <= CANARD_SERVICE_ID_MAX
            THEN IF local_node_id <= CANARD_NODE_ID_MAX
                 THEN makeServiceSessionSpecifier(tr.port_id,
                                                  tr.transfer_kind = CanardTransferKindRequest,
                                                  local_node_id,
                                                  tr.remote_node_id)
                 ELSE -CANARD_ERROR_INVALID_ARGUMENT
            ELSE -CANARD_ERROR_INVALID_ARGUMENT
    IN IF spec >= 0
       THEN BitOr(spec, Shl32(tr.priority, OFFSET_PRIORITY))
       ELSE spec

makeCANID(tr, local_node_id, presentation_layer_mtu) ==
    LET spec ==
            IF tr.transfer_kind = CanardTransferKindMessage
               /\ CANARD_NODE_ID_UNSET = tr.remote_node_id
               /\ tr.port_id <= CANARD_SUBJECT_ID_MAX
            THEN IF local_node_id <= CANARD_NODE_ID_MAX
                 THEN makeMessageSessionSpecifier(tr.port_id, local_node_id)
                 ELSE IF tr.payload_size <= presentation_layer_mtu
                 THEN LET c == BitAnd(crcAdd(CRC_INITIAL, SubSeq(tr.payload, 1, tr.payload_size)),
                                      CANARD_NODE_ID_MAX)
                      IN BitOr(makeMessageSessionSpecifier(tr.port_id, c), FLAG_ANONYMOUS_MESSAGE)
                 ELSE -CANARD_ERROR_INVALID_ARGUMENT
            ELSE IF (tr.transfer_kind = CanardTransferKindRequest
                     \/ tr.transfer_kind = CanardTransferKindResponse)
                    /\ tr.remote_node_id <= CANARD_NODE_ID_MAX
                    /\ tr.port_id <= CANARD_SERVICE_ID_MAX
            THEN IF local_node_id <= CANARD_NODE_ID_MAX
                 THEN makeServiceSessionSpecifier(tr.port_id,
                                                  tr.transfer_kind = CanardTransferKindRequest,
                                                  local_node_id,
                                                  tr.remote_node_id)
                 ELSE -CANARD_ERROR_INVALID_ARGUMENT
            ELSE -CANARD_ERROR_INVALID_ARGUMENT
    IN IF spec >= 0
       THEN IF tr.priority <= CANARD_PRIORITY_MAX
            THEN BitOr(spec, Shl32(tr.priority, OFFSET_PRIORITY))
            ELSE -CANARD_ERROR_INVALID_ARGUMENT
       ELSE spec

\* A tail byte whose toggle bit is always set.
makeTailByteToggleSet(start_of_transfer, end_of_transfer, toggle, transfer_id) ==
    BitOr(BitOr(BitOr(IF start_of_transfer THEN TAIL_START_OF_TRANSFER ELSE 0,
                      IF end_of_transfer THEN TAIL_END_OF_TRANSFER ELSE 0),
                TAIL_TOGGLE),
          BitAnd(transfer_id, CANARD_TRANSFER_ID_MAX)) % 256

makeTailByte(start_of_transfer, end_of_transfer, toggle, transfer_id) ==
    BitOr(BitOr(BitOr(IF start_of_transfer THEN TAIL_START_OF_TRANSFER ELSE 0,
                      IF end_of_transfer THEN TAIL_END_OF_TRANSFER ELSE 0),
                IF toggle THEN TAIL_TOGGLE ELSE 0),
          BitAnd(transfer_id, CANARD_TRANSFER_ID_MAX)) % 256

\* The item's payload is kept as the bytes written so far, in order of their index.
allocateTxQueueItem(m, id, deadline_usec, payload_size) ==
    LET m1 == memory_allocate(m)
        out == LastAlloc(m1)
    IN IF out # NULL
       THEN [m1 EXCEPT !.heap[out] = [t |-> "tqi", next |-> NULL, deadline_usec |-> deadline_usec,
                                      payload_size |-> payload_size, id |-> id, payload |-> <<>>]]
       ELSE m1

\* A walk that stops in front of the items of the same CAN-ID instead of behind them.
RECURSIVE supremumWalkStrict(_, _, _)
supremumWalkStrict(h, out, can_id) ==
    IF out # NULL /\ h[out].next # NULL /\ h[h[out].next].id < can_id
    THEN supremumWalkStrict(h, h[out].next, can_id)
    ELSE out

RECURSIVE supremumWalk(_, _, _)
supremumWalk(h, out, can_id) ==
    IF out # NULL /\ h[out].next # NULL /\ h[h[out].next].id <= can_id
    THEN supremumWalk(h, h[out].next, can_id)
    ELSE out

\* A search that takes the head of the queue for the supremum, whatever its CAN-ID is.
findTxQueueSupremumHead(m, can_id) == m.tx_queue

findTxQueueSupremum(m, can_id) ==
    LET out == m.tx_queue
    IN IF NULL = out \/ m.heap[out].id > can_id THEN NULL
       ELSE supremumWalk(m.heap, out, can_id)

\* Padding of a byte that is not PADDING_BYTE.
NonZeros(n) == [i \in 1..n |-> PADDING_BYTE + 1]

Zeros(n) == [i \in 1..n |-> PADDING_BYTE]

pushSingleFrameTransfer(m, deadline_usec, can_id, transfer_id, payload_size, payload) ==
    LET frame_payload_size == roundFramePayloadSizeUp(payload_size + 1)
        padding_size == frame_payload_size - payload_size - 1
        m1 == allocateTxQueueItem(m, can_id, deadline_usec, frame_payload_size)
        tqi == LastAlloc(m1)
    IN IF tqi # NULL
       THEN LET bytes == SubSeq(payload, 1, payload_size) \o Zeros(padding_size)
                         \o <<makeTailByte(TRUE, TRUE, TRUE, transfer_id)>>
                m2 == [m1 EXCEPT !.heap[tqi].payload = bytes]
                sup == findTxQueueSupremum(m2, can_id)
            IN IF sup # NULL
               THEN [m2 EXCEPT !.heap[tqi].next = m2.heap[sup].next,
                               !.heap[sup].next = tqi,
                               !.ret = 1]
               ELSE [m2 EXCEPT !.heap[tqi].next = m2.tx_queue,
                               !.tx_queue = tqi,
                               !.ret = 1]
       ELSE [m1 EXCEPT !.ret = -CANARD_ERROR_OUT_OF_MEMORY]

\* A CRC that leaves the padding out.
crcAddPaddingSkipped(crc, n) == crc

RECURSIVE crcAddPadding(_, _)
crcAddPadding(crc, n) ==
    IF n = 0 \/ crc < 0 THEN crc ELSE crcAddPadding(crcAddByte(crc, PADDING_BYTE), n - 1)

\* One iteration of the frame loop of pushMultiFrameTransfer and the iterations after
\* it. L holds the function's locals; L.m is the work record.
RECURSIVE multiFrameLoop(_, _, _, _, _, _, _)
multiFrameLoop(L, presentation_layer_mtu, deadline_usec, can_id, transfer_id, payload_size, payload) ==
    LET payload_size_with_crc == payload_size + CRC_SIZE_BYTES
    IN IF ~(L.offset < payload_size_with_crc) THEN L
       ELSE
       LET frame_payload_size_with_tail ==
               IF (payload_size_with_crc - L.offset) < presentation_layer_mtu
               THEN roundFramePayloadSizeUp((payload_size_with_crc - L.offset) + 1)
               ELSE presentation_layer_mtu + 1
           m1 == allocateTxQueueItem(L.m, can_id, deadline_usec, frame_payload_size_with_tail)
           tqi == LastAlloc(m1)
           head == IF NULL = L.head THEN tqi ELSE L.head
           m2 == IF NULL = L.head THEN m1 ELSE [m1 EXCEPT !.heap[L.tail].next = tqi]
       IN IF NULL = tqi
          THEN [L EXCEPT !.m = m2, !.head = head, !.tail = NULL, !.out = @ + 1]
          ELSE
          LET frame_payload_size == frame_payload_size_with_tail - 1
              move_size == IF L.offset < payload_size
                           THEN MinOf(payload_size - L.offset, frame_payload_size)
                           ELSE 0
              moved == SubSeq(payload, L.offset + 1, L.offset + move_size)
              offset1 == L.offset + move_size
              last_frame == offset1 >= payload_size
              padding == IF last_frame /\ (move_size + CRC_SIZE_BYTES) < frame_payload_size
                         THEN frame_payload_size - CRC_SIZE_BYTES - move_size
                         ELSE 0
              crc == crcAddPadding(L.crc, padding)
              frame_offset2 == move_size + padding
              put_hi == last_frame /\ frame_offset2 < frame_payload_size /\ offset1 = payload_size
              frame_offset3 == IF put_hi THEN frame_offset2 + 1 ELSE frame_offset2
              offset2 == IF put_hi THEN offset1 + 1 ELSE offset1
              put_lo == last_frame /\ frame_offset3 < frame_payload_size /\ offset2 > payload_size
              offset3 == IF put_lo THEN offset2 + 1 ELSE offset2
              bytes == moved \o Zeros(padding)
                       \o (IF put_hi THEN <<Shr(crc, BITS_PER_BYTE) % 256>> ELSE <<>>)
                       \o (IF put_lo THEN <<BitAnd(crc, BYTE_MAX)>> ELSE <<>>)
                       \o <<makeTailByte(L.start_of_transfer, offset3 >= payload_size_with_crc,
                                         L.toggle, transfer_id)>>
              m3 == [m2 EXCEPT !.heap[tqi].payload = bytes]
          IN multiFrameLoop([m |-> m3, head |-> head, tail |-> tqi, offset |-> offset3, crc |-> crc,
                             start_of_transfer |-> FALSE, toggle |-> ~L.toggle, out |-> L.out + 1],
                            presentation_layer_mtu, deadline_usec, can_id, transfer_id,
                            payload_size, payload)

\* A clean-up that releases the first item of the chain only.
freeChainHeadOnly(m, head) == memory_free(m, head)

RECURSIVE freeChain(_, _)
freeChain(m, head) ==
    IF head = NULL THEN m
    ELSE LET next == m.heap[head].next
         IN freeChain(memory_free(m, head), next)

pushMultiFrameTransfer(m, presentation_layer_mtu, deadline_usec, can_id, transfer_id, payload_size, payload) ==
    LET L == multiFrameLoop([m |-> m, head |-> NULL, tail |-> NULL, offset |-> 0,
                             crc |-> crcAdd(CRC_INITIAL, SubSeq(payload, 1, payload_size)),
                             start_of_transfer |-> TRUE, toggle |-> TRUE, out |-> 0],
                            presentation_layer_mtu, deadline_usec, can_id, transfer_id,
                            payload_size, payload)
    IN IF L.tail # NULL
       THEN LET sup == findTxQueueSupremum(L.m, can_id)
            IN IF NULL = sup
               THEN [L.m EXCEPT !.heap[L.tail].next = L.m.tx_queue,
                                !.tx_queue = L.head,
                                !.ret = L.out]
               ELSE [L.m EXCEPT !.heap[L.tail].next = L.m.heap[sup].next,
                                !.heap[sup].next = L.head,
                                !.ret = L.out]
       ELSE [freeChain(L.m, L.head) EXCEPT !.ret = -CANARD_ERROR_OUT_OF_MEMORY]

canardTxPush(m, node_id, mtu_bytes, transfer) ==
    IF ~transfer.payload_null \/ 0 = transfer.payload_size
    THEN LET pl_mtu == getPresentationLayerMTU(mtu_bytes)
             maybe_can_id == makeCANID(transfer, node_id, pl_mtu)
         IN IF maybe_can_id >= 0
            THEN IF transfer.payload_size <= pl_mtu
                 THEN pushSingleFrameTransfer(m, transfer.timestamp_usec, maybe_can_id,
                                              transfer.transfer_id, transfer.payload_size,
                                              transfer.payload)
                 ELSE pushMultiFrameTransfer(m, pl_mtu, transfer.timestamp_usec, maybe_can_id,
                                             transfer.transfer_id, transfer.payload_size,
                                             transfer.payload)
            ELSE [m EXCEPT !.ret = maybe_can_id]
    ELSE [m EXCEPT !.ret = -CANARD_ERROR_INVALID_ARGUMENT]

\* A peek that leaves the timestamp of out_frame at zero.
canardTxPeekNoDeadline(m) ==
    LET tqi == m.tx_queue
    IN IF tqi # NULL
       THEN [ret |-> 1,
             out_frame |-> [timestamp_usec |-> 0,
                            extended_can_id |-> m.heap[tqi].id,
                            payload_size |-> m.heap[tqi].payload_size,
                            payload |-> m.heap[tqi].payload]]
       ELSE [ret |-> 0, out_frame |-> <<>>]

\* A peek that exposes the item behind the head when there is one.
canardTxPeekSecond(m) ==
    LET head == m.tx_queue
        tqi == IF head # NULL /\ m.heap[head].next # NULL THEN m.heap[head].next ELSE head
    IN IF tqi # NULL
       THEN [ret |-> 1,
             out_frame |-> [timestamp_usec |-> m.heap[tqi].deadline_usec,
                            extended_can_id |-> m.heap[tqi].id,
                            payload_size |-> m.heap[tqi].payload_size,
                            payload |-> m.heap[tqi].payload]]
       ELSE [ret |-> 0, out_frame |-> <<>>]

\* out_frame as canardTxPeek fills it; the payload is borrowed from the queue item.
canardTxPeek(m) ==
    LET tqi == m.tx_queue
    IN IF tqi # NULL
       THEN [ret |-> 1,
             out_frame |-> [timestamp_usec |-> m.heap[tqi].deadline_usec,
                            extended_can_id |-> m.heap[tqi].id,
                            payload_size |-> m.heap[tqi].payload_size,
                            payload |-> m.heap[tqi].payload]]
       ELSE [ret |-> 0, out_frame |-> <<>>]

\* A pop that unlinks the head and does not free it.
canardTxPopNoFree(m) ==
    IF m.tx_queue # NULL
    THEN [m EXCEPT !.tx_queue = m.heap[m.tx_queue].next]
    ELSE m

canardTxPop(m) ==
    IF m.tx_queue # NULL
    THEN LET next == m.heap[m.tx_queue].next
         IN [memory_free(m, m.tx_queue) EXCEPT !.tx_queue = next]
    ELSE m


\* ------------------------------------------------------------ reception

SESSIONS_PER_SUBSCRIPTION == CANARD_NODE_ID_MAX + 1

\* The _sessions array of a subscription, SESSIONS_PER_SUBSCRIPTION pointers indexed by the
\* source node-ID, is kept as the function of its non-NULL entries.
NoSessions == [i \in {} |-> NULL]

SessionAt(sub, i) == IF i \in DOMAIN sub.sessions THEN sub.sessions[i] ELSE NULL

SetSession(sessions, i, rxs) ==
    [j \in (IF rxs = NULL THEN DOMAIN sessions \ {i} ELSE DOMAIN sessions \cup {i}) |->
        IF j = i THEN rxs ELSE sessions[j]]

\* FrameModel model = {0}
ZeroFrameModel ==
    [timestamp_usec |-> 0, priority |-> 0, transfer_kind |-> 0, port_id |-> 0,
     source_node_id |-> 0, destination_node_id |-> 0, transfer_id |-> 0,
     start_of_transfer |-> FALSE, end_of_transfer |-> FALSE, toggle |-> FALSE,
     payload_size |-> 0, payload |-> <<>>]

\* A parser without the check of the protocol version: the toggle bit of a first frame.
tryParseFrameAnyToggle(frame) ==
    IF frame.payload_size > 0
    THEN LET can_id == frame.extended_can_id
             is_message == 0 = BitAnd(can_id, FLAG_SERVICE_NOT_MESSAGE)
             valid_id == IF is_message
                         THEN (0 = BitAnd(can_id, FLAG_RESERVED_23)) /\ (0 = BitAnd(can_id, FLAG_RESERVED_07))
                         ELSE 0 = BitAnd(can_id, FLAG_RESERVED_23)
             source_node_id == IF is_message /\ BitAnd(can_id, FLAG_ANONYMOUS_MESSAGE) # 0
                               THEN CANARD_NODE_ID_UNSET
                               ELSE BitAnd(can_id, CANARD_NODE_ID_MAX)
             payload_size == frame.payload_size - 1
             tail == frame.payload[payload_size + 1]
             start_of_transfer == BitAnd(tail, TAIL_START_OF_TRANSFER) # 0
             end_of_transfer == BitAnd(tail, TAIL_END_OF_TRANSFER) # 0
             toggle == BitAnd(tail, TAIL_TOGGLE) # 0
         IN [valid |-> valid_id
                       /\ (IF CANARD_NODE_ID_UNSET = source_node_id
                           THEN start_of_transfer /\ end_of_transfer
                           ELSE TRUE),
             model |-> [timestamp_usec |-> frame.timestamp_usec,
                        priority |-> BitAnd(Shr(can_id, OFFSET_PRIORITY), CANARD_PRIORITY_MAX),
                        transfer_kind |-> IF is_message THEN CanardTransferKindMessage
                                          ELSE IF BitAnd(can_id, FLAG_REQUEST_NOT_RESPONSE) # 0
                                          THEN CanardTransferKindRequest
                                          ELSE CanardTransferKindResponse,
                        port_id |-> IF is_message
                                    THEN BitAnd(Shr(can_id, OFFSET_SUBJECT_ID), CANARD_SUBJECT_ID_MAX)
                                    ELSE BitAnd(Shr(can_id, OFFSET_SERVICE_ID), CANARD_SERVICE_ID_MAX),
                        source_node_id |-> source_node_id,
                        destination_node_id |-> IF is_message THEN CANARD_NODE_ID_UNSET
                                                ELSE BitAnd(Shr(can_id, OFFSET_DST_NODE_ID), CANARD_NODE_ID_MAX),
                        transfer_id |-> BitAnd(tail, CANARD_TRANSFER_ID_MAX),
                        start_of_transfer |-> start_of_transfer,
                        end_of_transfer |-> end_of_transfer,
                        toggle |-> toggle,
                        payload_size |-> payload_size,
                        payload |-> SubSeq(frame.payload, 1, payload_size)]]
    ELSE [valid |-> FALSE, model |-> ZeroFrameModel]

\* The FrameModel's payload is kept as the payload_size bytes its pointer gives access to.
tryParseFrame(frame) ==
    IF frame.payload_size > 0
    THEN LET can_id == frame.extended_can_id
             is_message == 0 = BitAnd(can_id, FLAG_SERVICE_NOT_MESSAGE)
             valid_id == IF is_message
                         THEN (0 = BitAnd(can_id, FLAG_RESERVED_23)) /\ (0 = BitAnd(can_id, FLAG_RESERVED_07))
                         ELSE 0 = BitAnd(can_id, FLAG_RESERVED_23)
             source_node_id == IF is_message /\ BitAnd(can_id, FLAG_ANONYMOUS_MESSAGE) # 0
                               THEN CANARD_NODE_ID_UNSET
                               ELSE BitAnd(can_id, CANARD_NODE_ID_MAX)
             payload_size == frame.payload_size - 1
             tail == frame.payload[payload_size + 1]
             start_of_transfer == BitAnd(tail, TAIL_START_OF_TRANSFER) # 0
             end_of_transfer == BitAnd(tail, TAIL_END_OF_TRANSFER) # 0
             toggle == BitAnd(tail, TAIL_TOGGLE) # 0
         IN [valid |-> valid_id
                       /\ (IF start_of_transfer THEN toggle ELSE TRUE)
                       /\ (IF CANARD_NODE_ID_UNSET = source_node_id
                           THEN start_of_transfer /\ end_of_transfer
                           ELSE TRUE),
             model |-> [timestamp_usec |-> frame.timestamp_usec,
                        priority |-> BitAnd(Shr(can_id, OFFSET_PRIORITY), CANARD_PRIORITY_MAX),
                        transfer_kind |-> IF is_message THEN CanardTransferKindMessage
                                          ELSE IF BitAnd(can_id, FLAG_REQUEST_NOT_RESPONSE) # 0
                                          THEN CanardTransferKindRequest
                                          ELSE CanardTransferKindResponse,
                        port_id |-> IF is_message
                                    THEN BitAnd(Shr(can_id, OFFSET_SUBJECT_ID), CANARD_SUBJECT_ID_MAX)
                                    ELSE BitAnd(Shr(can_id, OFFSET_SERVICE_ID), CANARD_SERVICE_ID_MAX),
                        source_node_id |-> source_node_id,
                        destination_node_id |-> IF is_message THEN CANARD_NODE_ID_UNSET
                                                ELSE BitAnd(Shr(can_id, OFFSET_DST_NODE_ID), CANARD_NODE_ID_MAX),
                        transfer_id |-> BitAnd(tail, CANARD_TRANSFER_ID_MAX),
                        start_of_transfer |-> start_of_transfer,
                        end_of_transfer |-> end_of_transfer,
                        toggle |-> toggle,
                        payload_size |-> payload_size,
                        payload |-> SubSeq(frame.payload, 1, payload_size)]]
    ELSE [valid |-> FALSE, model |-> ZeroFrameModel]

\* An output transfer whose transfer-ID is left at zero.
initRxTransferFromFrameNoTransferID(frame) ==
    [timestamp_usec |-> frame.timestamp_usec,
     priority |-> frame.priority,
     transfer_kind |-> frame.transfer_kind,
     port_id |-> frame.port_id,
     remote_node_id |-> frame.source_node_id,
     transfer_id |-> 0,
     payload_size |-> frame.payload_size,
     payload |-> frame.payload]

initRxTransferFromFrame(frame) ==
    [timestamp_usec |-> frame.timestamp_usec,
     priority |-> frame.priority,
     transfer_kind |-> frame.transfer_kind,
     port_id |-> frame.port_id,
     remote_node_id |-> frame.source_node_id,
     transfer_id |-> frame.transfer_id,
     payload_size |-> frame.payload_size,
     payload |-> frame.payload]

\* The function changes nothing and returns 0; out_transfer is left as it was.
\* A session that delivers the last frame of a transfer that comes from its own interface.
updateRxSessionDelivers(m, rxs, frame, iface_index, transfer_id_timeout_usec, payload_size_bytes_max) ==
    IF frame.end_of_transfer /\ iface_index = m.heap[rxs].iface_index
    THEN [m EXCEPT !.out_transfer = initRxTransferFromFrame(frame), !.ret = 1]
    ELSE [m EXCEPT !.ret = 0]

updateRxSession(m, rxs, frame, iface_index, transfer_id_timeout_usec, payload_size_bytes_max) ==
    [m EXCEPT !.ret = 0]

RECURSIVE findSubscription(_, _, _)
findSubscription(sb, sub, port_id) ==
    IF sub # NULL /\ sb[sub].port_id # port_id
    THEN findSubscription(sb, sb[sub].next, port_id)
    ELSE sub

\* A session is created for a frame that does not start a transfer, too.
acceptFrameAnyFrame(m, frame, iface_index) ==
    LET sub == findSubscription(m.subs, m.rx_subscriptions[frame.transfer_kind], frame.port_id)
        src == frame.source_node_id
    IN IF sub # NULL
       THEN IF src <= CANARD_NODE_ID_MAX
            THEN LET create == NULL = SessionAt(m.subs[sub], src)
                     m1 == IF create THEN memory_allocate(m) ELSE m
                     rxs == IF create THEN LastAlloc(m1) ELSE NULL
                     m2 == IF create
                           THEN IF rxs # NULL
                                THEN [m1 EXCEPT !.subs[sub].sessions = SetSession(@, src, rxs),
                                                !.heap[rxs] =
                                                    [t |-> "rxs",
                                                     transfer_timestamp_usec |-> frame.timestamp_usec,
                                                     payload_size |-> 0,
                                                     payload |-> NULL,
                                                     calculated_crc |-> CRC_INITIAL,
                                                     toggle_and_transfer_id |-> TAIL_TOGGLE,
                                                     iface_index |-> 0],
                                                !.ret = 0]
                                ELSE [m1 EXCEPT !.subs[sub].sessions = SetSession(@, src, rxs),
                                                !.ret = -CANARD_ERROR_OUT_OF_MEMORY]
                           ELSE [m1 EXCEPT !.ret = 0]
                 IN IF SessionAt(m2.subs[sub], src) # NULL
                    THEN updateRxSession(m2, SessionAt(m2.subs[sub], src), frame, iface_index,
                                         m2.subs[sub].transfer_id_timeout_usec,
                                         m2.subs[sub].payload_size_bytes_max)
                    ELSE m2
            ELSE [m EXCEPT !.out_transfer = initRxTransferFromFrame(frame), !.ret = 1]
       ELSE [m EXCEPT !.ret = 0]

\* A session is created for every frame that starts a transfer, whatever its slot holds.
acceptFrameAlwaysCreate(m, frame, iface_index) ==
    LET sub == findSubscription(m.subs, m.rx_subscriptions[frame.transfer_kind], frame.port_id)
        src == frame.source_node_id
    IN IF sub # NULL
       THEN IF src <= CANARD_NODE_ID_MAX
            THEN LET create == frame.start_of_transfer
                     m1 == IF create THEN memory_allocate(m) ELSE m
                     rxs == IF create THEN LastAlloc(m1) ELSE NULL
                     m2 == IF create
                           THEN IF rxs # NULL
                                THEN [m1 EXCEPT !.subs[sub].sessions = SetSession(@, src, rxs),
                                                !.heap[rxs] =
                                                    [t |-> "rxs",
                                                     transfer_timestamp_usec |-> frame.timestamp_usec,
                                                     payload_size |-> 0,
                                                     payload |-> NULL,
                                                     calculated_crc |-> CRC_INITIAL,
                                                     toggle_and_transfer_id |-> TAIL_TOGGLE,
                                                     iface_index |-> 0],
                                                !.ret = 0]
                                ELSE [m1 EXCEPT !.subs[sub].sessions = SetSession(@, src, rxs),
                                                !.ret = -CANARD_ERROR_OUT_OF_MEMORY]
                           ELSE [m1 EXCEPT !.ret = 0]
                 IN IF SessionAt(m2.subs[sub], src) # NULL
                    THEN updateRxSession(m2, SessionAt(m2.subs[sub], src), frame, iface_index,
                                         m2.subs[sub].transfer_id_timeout_usec,
                                         m2.subs[sub].payload_size_bytes_max)
                    ELSE m2
            ELSE [m EXCEPT !.out_transfer = initRxTransferFromFrame(frame), !.ret = 1]
       ELSE [m EXCEPT !.ret = 0]

acceptFrame(m, frame, iface_index) ==
    LET sub == findSubscription(m.subs, m.rx_subscriptions[frame.transfer_kind], frame.port_id)
        src == frame.source_node_id
    IN IF sub # NULL
       THEN IF src <= CANARD_NODE_ID_MAX
            THEN LET create == NULL = SessionAt(m.subs[sub], src) /\ frame.start_of_transfer
                     m1 == IF create THEN memory_allocate(m) ELSE m
                     rxs == IF create THEN LastAlloc(m1) ELSE NULL
                     m2 == IF create
                           THEN IF rxs # NULL
                                THEN [m1 EXCEPT !.subs[sub].sessions = SetSession(@, src, rxs),
                                                !.heap[rxs] =
                                                    [t |-> "rxs",
                                                     transfer_timestamp_usec |-> frame.timestamp_usec,
                                                     payload_size |-> 0,
                                                     payload |-> NULL,
                                                     calculated_crc |-> CRC_INITIAL,
                                                     toggle_and_transfer_id |-> TAIL_TOGGLE,
                                                     iface_index |-> 0],
                                                !.ret = 0]
                                ELSE [m1 EXCEPT !.subs[sub].sessions = SetSession(@, src, rxs),
                                                !.ret = -CANARD_ERROR_OUT_OF_MEMORY]
                           ELSE [m1 EXCEPT !.ret = 0]
                 IN IF SessionAt(m2.subs[sub], src) # NULL
                    THEN updateRxSession(m2, SessionAt(m2.subs[sub], src), frame, iface_index,
                                         m2.subs[sub].transfer_id_timeout_usec,
                                         m2.subs[sub].payload_size_bytes_max)
                    ELSE m2
            ELSE [m EXCEPT !.out_transfer = initRxTransferFromFrame(frame), !.ret = 1]
       ELSE [m EXCEPT !.ret = 0]

\* An accept without the check of the range of the CAN-ID.
canardRxAcceptAnyID(m, node_id, frame, iface_index, null_args) ==
    IF /\ "ins" \notin null_args
       /\ "out_transfer" \notin null_args
       /\ "frame" \notin null_args
       /\ (~frame.payload_null \/ 0 = frame.payload_size)
    THEN LET parsed == tryParseFrame(frame)
         IN IF parsed.valid
            THEN IF CANARD_NODE_ID_UNSET = parsed.model.destination_node_id
                    \/ node_id = parsed.model.destination_node_id
                 THEN acceptFrame(m, parsed.model, iface_index)
                 ELSE [m EXCEPT !.ret = 0]
            ELSE [m EXCEPT !.ret = 0]
    ELSE [m EXCEPT !.ret = -CANARD_ERROR_INVALID_ARGUMENT]

\* null_args is the set of the pointer arguments ("ins", "frame", "out_transfer") that are NULL.
canardRxAccept(m, node_id, frame, iface_index, null_args) ==
    IF /\ "ins" \notin null_args
       /\ "out_transfer" \notin null_args
       /\ "frame" \notin null_args
       /\ frame.extended_can_id <= CAN_EXT_ID_MASK
       /\ (~frame.payload_null \/ 0 = frame.payload_size)
    THEN LET parsed == tryParseFrame(frame)
         IN IF parsed.valid
            THEN IF CANARD_NODE_ID_UNSET = parsed.model.destination_node_id
                    \/ node_id = parsed.model.destination_node_id
                 THEN acceptFrame(m, parsed.model, iface_index)
                 ELSE [m EXCEPT !.ret = 0]
            ELSE [m EXCEPT !.ret = 0]
    ELSE [m EXCEPT !.ret = -CANARD_ERROR_INVALID_ARGUMENT]

\* A search that takes the head of the list whatever its port-ID is.
findSubscriptionPrevHead(sb, prv, sub, port_id) == [prv |-> prv, sub |-> sub]

RECURSIVE findSubscriptionPrev(_, _, _, _)
findSubscriptionPrev(sb, prv, sub, port_id) ==
    IF sub # NULL /\ sb[sub].port_id # port_id
    THEN findSubscriptionPrev(sb, sub, sb[sub].next, port_id)
    ELSE [prv |-> prv, sub |-> sub]

\* A loop that frees the first session it finds and empties every slot.
freeSessionsFirstOnly(m, sub, i) ==
    LET held == {j \in DOMAIN m.subs[sub].sessions : i <= j /\ j < SESSIONS_PER_SUBSCRIPTION}
    IN IF held = {} THEN m
       ELSE LET j == CHOOSE x \in held : \A y \in held : x <= y
                rxs == SessionAt(m.subs[sub], j)
                m1 == memory_free(m, m.heap[rxs].payload)
                m2 == memory_free(m1, rxs)
            IN [m2 EXCEPT !.subs[sub].sessions = NoSessions]

\* The loop over the session slots from the i-th on. For an empty slot both calls of
\* memory_free get NULL and the slot is set to the NULL it holds, so the loop is followed
\* from one slot that holds a session to the next.
RECURSIVE freeSessions(_, _, _)
freeSessions(m, sub, i) ==
    LET held == {j \in DOMAIN m.subs[sub].sessions : i <= j /\ j < SESSIONS_PER_SUBSCRIPTION}
    IN IF held = {} THEN m
       ELSE LET j == CHOOSE x \in held : \A y \in held : x <= y
                rxs == SessionAt(m.subs[sub], j)
                m1 == memory_free(m, m.heap[rxs].payload)
                m2 == memory_free(m1, rxs)
            IN freeSessions([m2 EXCEPT !.subs[sub].sessions = SetSession(@, j, NULL)], sub, j + 1)

canardRxUnsubscribe(m, transfer_kind, port_id) ==
    IF transfer_kind < CANARD_NUM_TRANSFER_KINDS
    THEN LET found == findSubscriptionPrev(m.subs, NULL, m.rx_subscriptions[transfer_kind], port_id)
             prv == found.prv
             sub == found.sub
         IN IF sub # NULL
            THEN LET m1 == IF prv # NULL
                           THEN [m EXCEPT !.subs[prv].next = m.subs[sub].next, !.ret = 1]
                           ELSE [m EXCEPT !.rx_subscriptions[transfer_kind] = m.subs[sub].next, !.ret = 1]
                 IN freeSessions(m1, sub, 0)
            ELSE [m EXCEPT !.ret = 0]
    ELSE [m EXCEPT !.ret = -CANARD_ERROR_INVALID_ARGUMENT]

\* A subscription that is linked without the removal of the one it replaces.
canardRxSubscribeNoRemoval(m, transfer_kind, port_id, payload_size_bytes_max, transfer_id_timeout_usec, out_subscription) ==
    IF transfer_kind < CANARD_NUM_TRANSFER_KINDS
    THEN [m EXCEPT !.subs[out_subscription] =
                       [next |-> m.rx_subscriptions[transfer_kind],
                        port_id |-> port_id,
                        payload_size_bytes_max |-> payload_size_bytes_max,
                        transfer_id_timeout_usec |-> transfer_id_timeout_usec,
                        sessions |-> NoSessions],
                   !.rx_subscriptions[transfer_kind] = out_subscription,
                   !.ret = 1]
    ELSE [m EXCEPT !.ret = -CANARD_ERROR_INVALID_ARGUMENT]

\* A subscription that is linked behind the head of a list that is not empty.
canardRxSubscribeBehindHead(m, transfer_kind, port_id, payload_size_bytes_max, transfer_id_timeout_usec, out_subscription) ==
    IF transfer_kind < CANARD_NUM_TRANSFER_KINDS
    THEN LET m1 == canardRxUnsubscribe(m, transfer_kind, port_id)
             head == m1.rx_subscriptions[transfer_kind]
             m2 == IF head = NULL
                   THEN [m1 EXCEPT !.rx_subscriptions[transfer_kind] = out_subscription]
                   ELSE [m1 EXCEPT !.subs[head].next = out_subscription]
         IN IF m1.ret >= 0
            THEN [m2 EXCEPT !.subs[out_subscription] =
                                [next |-> IF head = NULL THEN NULL ELSE m1.subs[head].next,
                                 port_id |-> port_id,
                                 payload_size_bytes_max |-> payload_size_bytes_max,
                                 transfer_id_timeout_usec |-> transfer_id_timeout_usec,
                                 sessions |-> NoSessions],
                            !.ret = IF m1.ret > 0 THEN 0 ELSE 1]
            ELSE m1
    ELSE [m EXCEPT !.ret = -CANARD_ERROR_INVALID_ARGUMENT]

canardRxSubscribe(m, transfer_kind, port_id, payload_size_bytes_max, transfer_id_timeout_usec, out_subscription) ==
    IF transfer_kind < CANARD_NUM_TRANSFER_KINDS
    THEN LET m1 == canardRxUnsubscribe(m, transfer_kind, port_id)
         IN IF m1.ret >= 0
            THEN [m1 EXCEPT !.subs[out_subscription] =
                                [next |-> m1.rx_subscriptions[transfer_kind],
                                 port_id |-> port_id,
                                 payload_size_bytes_max |-> payload_size_bytes_max,
                                 transfer_id_timeout_usec |-> transfer_id_timeout_usec,
                                 sessions |-> NoSessions],
                            !.rx_subscriptions[transfer_kind] = out_subscription,
                            !.ret = IF m1.ret > 0 THEN 0 ELSE 1]
            ELSE m1
    ELSE [m EXCEPT !.ret = -CANARD_ERROR_INVALID_ARGUMENT]

\* ------------------------------------------------------------ the instance and its callers

VARIABLES
    node_id,            \* ins->node_id
    mtu_bytes,          \* ins->mtu_bytes
    heap,               \* the allocator's blocks: free, or a TX queue item, or an RX session
    tx_queue,           \* ins->_tx_queue
    rx_subscriptions,   \* ins->_rx_subscriptions[kind]
    subs,               \* the caller's CanardRxSubscription objects
    pushed,             \* history: the queued items' addresses in the order they were pushed
    deadlines,          \* history: for each item of pushed, the timestamp of the transfer pushed
    groups,             \* history: the queued items of each transfer pushed, in the order of its frames
    heard,              \* history: per subscription object and source, the start of its latest transfer
    last                \* history: the most recent API call, its arguments and its results

vars == <<node_id, mtu_bytes, heap, tx_queue, rx_subscriptions, subs, pushed, deadlines, groups, heard, last>>

SubObjs == {1, 2}

TransferKinds == 0..(CANARD_NUM_TRANSFER_KINDS - 1)

\* A subscription object the library has not written yet.
BlankSubscription ==
    [next |-> NULL, port_id |-> 0, payload_size_bytes_max |-> 0, transfer_id_timeout_usec |-> 0,
     sessions |-> NoSessions]

\* A CanardTransfer given to canardTxPush. payload_null stands for a NULL payload pointer.
Transfer(ts, prio, kind, port, remote, tid, payload) ==
    [timestamp_usec |-> ts, priority |-> prio, transfer_kind |-> kind, port_id |-> port,
     remote_node_id |-> remote, transfer_id |-> tid, payload_size |-> Len(payload),
     payload |-> payload, payload_null |-> FALSE]

\* A NULL payload pointer with a zero payload size is legal: an empty message.
NullEmptyTransfer ==
    [Transfer(1000, 0, CanardTransferKindMessage, 2, CANARD_NODE_ID_UNSET, 0, <<>>)
        EXCEPT !.payload_null = TRUE]

\* A NULL payload pointer with a payload size that is not zero.
NullPayloadTransfer ==
    [Transfer(1000, 0, CanardTransferKindMessage, 2, CANARD_NODE_ID_UNSET, 0, <<>>)
        EXCEPT !.payload_size = 3, !.payload_null = TRUE]

\* What node 42 pushes on Classic CAN: an empty message and a short one, a response of two
\* frames and a message of three frames whose CRC is split, of the CAN-ID of the empty
\* message; a message with a remote node-ID and one of priority 8.
Node42Classic ==
    { NullEmptyTransfer,
      Transfer(2000, 4, CanardTransferKindMessage, 7168, CANARD_NODE_ID_UNSET, 1, <<16, 32, 48>>),
      Transfer(3000, 2, CanardTransferKindResponse, 5, 10, 35, Pattern(8)),
      Transfer(5000, 0, CanardTransferKindMessage, 2, CANARD_NODE_ID_UNSET, 36, Pattern(13)),
      Transfer(1000, 0, CanardTransferKindMessage, 2, 10, 0, <<1>>),
      Transfer(1000, 8, CanardTransferKindMessage, 2, CANARD_NODE_ID_UNSET, 0, <<1>>) }

\* What node 0 pushes on Classic CAN: messages of CAN-ID 0x200 and 0x100 of one frame, the
\* second of the largest payload one frame takes, a request of two full frames and a
\* message of three frames whose last holds the CRC only; a message of subject 8192 and a
\* transfer of no kind.
Node0Classic ==
    { Transfer(1000, 0, CanardTransferKindMessage, 2, CANARD_NODE_ID_UNSET, 0, <<1>>),
      Transfer(2000, 0, CanardTransferKindMessage, 1, CANARD_NODE_ID_UNSET, 1, Pattern(7)),
      Transfer(4000, 2, CanardTransferKindRequest, 5, 10, 3, Pattern(12)),
      Transfer(6000, 0, CanardTransferKindMessage, 1, CANARD_NODE_ID_UNSET, 31, Pattern(14)),
      Transfer(1000, 0, CanardTransferKindMessage, 8192, CANARD_NODE_ID_UNSET, 0, <<1>>),
      Transfer(1000, 0, CANARD_NUM_TRANSFER_KINDS, 2, CANARD_NODE_ID_UNSET, 0, <<1>>) }

\* What node 1 pushes on CAN FD: a padded message of one frame, the largest message of one
\* frame, the smallest of two frames, and a request of 100 bytes whose last frame is
\* padded; a request to no node and one of service 512.
Node1FD ==
    { Transfer(2000, 0, CanardTransferKindMessage, 100, CANARD_NODE_ID_UNSET, 33, Pattern(13)),
      Transfer(3000, 7, CanardTransferKindMessage, 8191, CANARD_NODE_ID_UNSET, 2, Pattern(63)),
      Transfer(4000, 0, CanardTransferKindMessage, 100, CANARD_NODE_ID_UNSET, 4, Pattern(64)),
      Transfer(5000, 2, CanardTransferKindRequest, 5, 10, 3, Repeat(100, 90)),
      Transfer(1000, 2, CanardTransferKindRequest, 5, CANARD_NODE_ID_UNSET, 3, <<1>>),
      Transfer(1000, 2, CanardTransferKindRequest, 512, 10, 3, <<1>>) }

\* What node 127 pushes on CAN FD: a short message, and a response of three frames whose CRC
\* is split; a message with the remote node-ID 200.
Node127FD ==
    { Transfer(1000, 0, CanardTransferKindMessage, 100, CANARD_NODE_ID_UNSET, 0, <<170, 187>>),
      Transfer(6000, 0, CanardTransferKindResponse, 511, 127, 5, Pattern(125)),
      Transfer(1000, 0, CanardTransferKindMessage, 2, 200, 0, <<1>>) }

\* What an anonymous node pushes on CAN FD: two messages of one frame, one of them padded,
\* a message that takes two frames and a request; a NULL payload of three bytes.
AnonymousFD ==
    { Transfer(1000, 0, CanardTransferKindMessage, 100, CANARD_NODE_ID_UNSET, 0, <<170, 187>>),
      Transfer(2000, 0, CanardTransferKindMessage, 100, CANARD_NODE_ID_UNSET, 33, Pattern(13)),
      Transfer(4000, 0, CanardTransferKindMessage, 100, CANARD_NODE_ID_UNSET, 4, Pattern(64)),
      Transfer(5000, 2, CanardTransferKindRequest, 5, 10, 3, Repeat(100, 90)),
      NullPayloadTransfer }

\* What an anonymous node pushes on Classic CAN: an empty message and a short one, a
\* message that takes two frames and a response; a response to node 200 and one of
\* priority 8.
AnonymousClassic ==
    { NullEmptyTransfer,
      Transfer(2000, 4, CanardTransferKindMessage, 7168, CANARD_NODE_ID_UNSET, 1, <<16, 32, 48>>),
      Transfer(4000, 0, CanardTransferKindMessage, 2, CANARD_NODE_ID_UNSET, 4, Pattern(8)),
      Transfer(3000, 2, CanardTransferKindResponse, 5, 10, 35, Pattern(8)),
      Transfer(1000, 2, CanardTransferKindResponse, 5, 200, 3, <<1>>),
      Transfer(1000, 8, CanardTransferKindResponse, 5, 10, 3, <<1>>) }

\* The transfers the application of an instance pushes.
TxInputs(node, mtu) ==
    IF mtu = CANARD_MTU_CAN_CLASSIC
    THEN (IF node = 42 THEN Node42Classic ELSE IF node = 0 THEN Node0Classic ELSE AnonymousClassic)
    ELSE (IF node = 1 THEN Node1FD ELSE IF node = 127 THEN Node127FD ELSE AnonymousFD)

NoTransfer == Transfer(0, 0, 0, 0, 0, 0, <<>>)

\* A CanardFrame given to canardRxAccept. payload_null stands for a NULL payload pointer.
Frame(ts, id, payload) ==
    [timestamp_usec |-> ts, extended_can_id |-> id, payload_size |-> Len(payload),
     payload |-> payload, payload_null |-> FALSE]

NoFrame == Frame(0, 0, <<>>)

\* The arguments of canardRxSubscribe and canardRxUnsubscribe.
NoSubscribe ==
    [transfer_kind |-> 0, port_id |-> 0, payload_size_bytes_max |-> 0,
     transfer_id_timeout_usec |-> 0, out_subscription |-> NULL]

NoCall ==
    [op |-> "init", ret |-> 0, allocs |-> <<>>, frees |-> <<>>, transfer |-> NoTransfer,
     out_frame |-> <<>>, out_transfer |-> <<>>, pre_heap |-> <<>>, pre_queue |-> NULL,
     pre_pushed |-> <<>>, frame |-> NoFrame, null_args |-> {}, subscribe |-> NoSubscribe,
     pre_subs |-> <<>>, pre_rx_subscriptions |-> <<>>]

\* The node-ID and the MTU an application gives the instance before it uses it.
Configurations ==
    { <<42, CANARD_MTU_CAN_CLASSIC>>, <<0, CANARD_MTU_CAN_CLASSIC>>,
      <<CANARD_NODE_ID_UNSET, CANARD_MTU_CAN_CLASSIC>>,
      <<1, CANARD_MTU_CAN_FD>>, <<127, CANARD_MTU_CAN_FD>>,
      <<CANARD_NODE_ID_UNSET, CANARD_MTU_CAN_FD>> }

\* Nothing has reached a subscription yet.
NothingHeard == [src \in {} |-> NULL]

\* canardInit: an anonymous CAN FD instance with an empty queue and no subscriptions.
Init ==
    /\ node_id = CANARD_NODE_ID_UNSET
    /\ mtu_bytes = CANARD_MTU_CAN_FD
    /\ heap = [a \in Addrs |-> FreeBlock]
    /\ tx_queue = NULL
    /\ rx_subscriptions = [k \in TransferKinds |-> NULL]
    /\ subs = [s \in SubObjs |-> BlankSubscription]
    /\ pushed = <<>>
    /\ deadlines = <<>>
    /\ groups = <<>>
    /\ heard = [s \in SubObjs |-> NothingHeard]
    /\ last = NoCall

\* The application writes the instance's node_id and mtu_bytes after canardInit and before
\* its first call.
Configure(c) ==
    /\ last.op = "init"
    /\ node_id' = c[1]
    /\ mtu_bytes' = c[2]
    /\ last' = [NoCall EXCEPT !.op = "configure"]
    /\ UNCHANGED <<heap, tx_queue, rx_subscriptions, subs, pushed, deadlines, groups, heard>>

Start(fail) == Work(heap, tx_queue, rx_subscriptions, subs, fail)

Call(op, m) ==
    [NoCall EXCEPT !.op = op, !.ret = m.ret, !.allocs = m.allocs, !.frees = m.frees,
                   !.out_transfer = m.out_transfer, !.pre_heap = heap, !.pre_queue = tx_queue,
                   !.pre_pushed = pushed, !.pre_subs = subs,
                   !.pre_rx_subscriptions = rx_subscriptions]

Without(seq, a) == SelectSeq(seq, LAMBDA x : x # a)

\* seq without its i-th element.
Remove(seq, i) == SubSeq(seq, 1, i - 1) \o SubSeq(seq, i + 1, Len(seq))

\* The index of a in pushed.
PushedAt(a) == CHOOSE i \in 1..Len(pushed) : pushed[i] = a

TxPush(transfer, fail) ==
    \E m \in {canardTxPush(Start(fail), node_id, mtu_bytes, transfer)} :
       /\ heap' = m.heap
       /\ tx_queue' = m.tx_queue
       /\ pushed' = IF m.ret > 0 THEN pushed \o m.allocs ELSE pushed
       /\ deadlines' = IF m.ret > 0
                       THEN deadlines \o [i \in 1..Len(m.allocs) |-> transfer.timestamp_usec]
                       ELSE deadlines
       /\ groups' = IF m.ret > 0 THEN Append(groups, m.allocs) ELSE groups
       /\ last' = [Call("tx_push", m) EXCEPT !.transfer = transfer]
       /\ UNCHANGED <<node_id, mtu_bytes, rx_subscriptions, subs, heard>>

TxPeek ==
    \E r \in {canardTxPeek(Start(0))} :
       /\ last' = [Call("tx_peek", Start(0)) EXCEPT !.ret = r.ret, !.out_frame = r.out_frame]
       /\ UNCHANGED <<node_id, mtu_bytes, heap, tx_queue, rx_subscriptions, subs, pushed, deadlines, groups, heard>>

TxPop ==
    \E m \in {canardTxPop(Start(0))} :
       /\ heap' = m.heap
       /\ tx_queue' = m.tx_queue
       /\ pushed' = IF tx_queue # NULL THEN Without(pushed, tx_queue) ELSE pushed
       /\ deadlines' = IF tx_queue # NULL THEN Remove(deadlines, PushedAt(tx_queue)) ELSE deadlines
       /\ groups' = IF tx_queue # NULL
                    THEN SelectSeq([i \in 1..Len(groups) |-> Without(groups[i], tx_queue)],
                                   LAMBDA g : g # <<>>)
                    ELSE groups
       /\ last' = Call("tx_pop", m)
       /\ UNCHANGED <<node_id, mtu_bytes, rx_subscriptions, subs, heard>>

\* The allocator may refuse any one of the requests a call makes: 0 (none), or the index
\* of a request of the call as it runs when nothing is refused.
FailPoints(transfer) == 0..Len(canardTxPush(Start(0), node_id, mtu_bytes, transfer).allocs)

NextTx ==
    \/ \E c \in Configurations : Configure(c)
    \/ \E transfer \in TxInputs(node_id, mtu_bytes) : \E fail \in FailPoints(transfer) : TxPush(transfer, fail)
    \/ TxPeek
    \/ TxPop

\* The transmission API alone: any sequence of canardTxPush, canardTxPeek and canardTxPop.
SpecTx == Init /\ [][NextTx]_vars

\* ------------------------------------------------------------ the whole API and its callers

\* The subscriptions of the list that starts at sub, from head to tail.
RECURSIVE SubscriptionSeq(_, _)
SubscriptionSeq(sb, sub) == IF sub = NULL THEN <<>> ELSE <<sub>> \o SubscriptionSeq(sb, sb[sub].next)

\* The subscription objects linked into the instance, with the kind of their list.
Linked(sb, rs) == {<<k, sub>> : k \in TransferKinds, sub \in SubObjs} \cap
                  UNION {{<<k, SubscriptionSeq(sb, rs[k])[i]>> : i \in 1..Len(SubscriptionSeq(sb, rs[k]))} : k \in TransferKinds}

\* The CAN-IDs of the frames other nodes put on the bus.
MessageID(priority, subject_id, src_node_id) ==
    BitOr(makeMessageSessionSpecifier(subject_id, src_node_id), Shl32(priority, OFFSET_PRIORITY))

AnonymousID(priority, subject_id, pseudo_id) ==
    BitOr(MessageID(priority, subject_id, pseudo_id), FLAG_ANONYMOUS_MESSAGE)

ServiceID(priority, service_id, request_not_response, src_node_id, dst_node_id) ==
    BitOr(makeServiceSessionSpecifier(service_id, request_not_response, src_node_id, dst_node_id),
          Shl32(priority, OFFSET_PRIORITY))

\* One call of canardRxAccept: the frame and the pointer arguments that are NULL.
Accept(frame) == [frame |-> frame, null_args |-> {}]

AcceptNull(frame, arg) == [frame |-> frame, null_args |-> {arg}]

Subscribe(kind, port, extent, timeout, sub) ==
    [transfer_kind |-> kind, port_id |-> port, payload_size_bytes_max |-> extent,
     transfer_id_timeout_usec |-> timeout, out_subscription |-> sub]

\* A single-frame message of subject 100 from node 10, transfer-ID 1.
MessageFrom10 == Frame(7000, MessageID(4, 100, 10), <<16, 32, 48, 225>>)

\* An anonymous message of subject 100: SOT, EOT and toggle set, transfer-ID 5.
AnonymousMessage == Frame(9000, AnonymousID(3, 100, 77), <<170, 187, 229>>)

\* A single-frame request of service 5 from node 10 to node 20, transfer-ID 3.
RequestTo20 == Frame(7000, ServiceID(2, 5, TRUE, 10, 20), <<1, 227>>)

\* A single-frame request of service 5 from node 10 to node 21, transfer-ID 3.
RequestTo21 == Frame(7000, ServiceID(2, 5, TRUE, 10, 21), <<1, 227>>)

\* What reaches node 20 from the bus: frames of transfers it may be subscribed to, from the
\* nodes 10 and 11 and from an anonymous node, with and without the start of a transfer, and
\* a message of a subject it never subscribes to.
BusNode20 ==
    { Accept(MessageFrom10),
      Accept(Frame(7000, MessageID(4, 100, 10), <<1, 2, 3, 4, 5, 6, 7, 1>>)),
      Accept(Frame(7000, MessageID(4, 100, 11), <<1, 2, 3, 4, 5, 6, 7, 162>>)),
      Accept(AnonymousMessage),
      Accept(RequestTo20),
      Accept(Frame(7000, MessageID(4, 200, 10), <<16, 32, 48, 225>>)) }

\* What reaches node 21 from the bus: an anonymous message and a request; frames without
\* a payload, with a reserved bit set, with the start of a transfer and no toggle bit,
\* anonymous and not of one frame, or addressed to node 20; and calls with a CAN-ID of 30
\* bits and with NULL pointers.
BusNode21 ==
    { Accept(AnonymousMessage),
      Accept(RequestTo21),
      Accept(RequestTo20),
      Accept(Frame(7000, MessageID(4, 100, 10), <<>>)),
      Accept([Frame(7000, MessageID(4, 100, 10), <<>>) EXCEPT !.payload_null = TRUE]),
      Accept(Frame(7000, MessageID(4, 100, 10) + FLAG_RESERVED_23, <<16, 32, 48, 225>>)),
      Accept(Frame(7000, MessageID(4, 100, 10) + FLAG_RESERVED_07, <<16, 32, 48, 225>>)),
      Accept(Frame(7000, ServiceID(2, 5, TRUE, 10, 21) + FLAG_RESERVED_23, <<1, 227>>)),
      Accept(Frame(7000, MessageID(4, 100, 10), <<16, 32, 48, 193>>)),
      Accept(Frame(9000, AnonymousID(3, 100, 77), <<170, 187, 165>>)),
      Accept(Frame(9000, AnonymousID(3, 100, 77) + CAN_EXT_ID_MASK + 1, <<170, 187, 229>>)),
      Accept([AnonymousMessage EXCEPT !.payload_null = TRUE]),
      AcceptNull(AnonymousMessage, "ins"),
      AcceptNull(AnonymousMessage, "frame"),
      AcceptNull(AnonymousMessage, "out_transfer") }

\* What reaches an anonymous node from the bus: requests and a response addressed to the
\* nodes 20, 0 and 127.
BusAnonymous ==
    { Accept(RequestTo20),
      Accept(Frame(7000, ServiceID(2, 5, FALSE, 10, 0), <<1, 227>>)),
      Accept(Frame(7000, ServiceID(2, 5, TRUE, 10, 127), <<1, 227>>)) }

\* What reaches node 23 from the bus: the message of node 10, and a message of one frame of
\* node 11 whose timestamp is later by more than the 2000000 microseconds of the transfer-ID
\* timeout of the subscription.
BusNode23 ==
    { Accept(MessageFrom10),
      Accept(Frame(2007001, MessageID(4, 100, 11), <<1, 226>>)) }

\* The subscriptions node 20 makes: to the subject 100 with either of its two subscription
\* objects, and to the subject 7 and to the requests of service 5 with the second; and one
\* of no kind.
SubscribesNode20 ==
    { Subscribe(CanardTransferKindMessage, 100, 64, 2000000, 1),
      Subscribe(CanardTransferKindMessage, 100, 16, 1000000, 2),
      Subscribe(CanardTransferKindMessage, 7, 32, 2000000, 2),
      Subscribe(CanardTransferKindRequest, 5, 48, 1000000, 2),
      Subscribe(CANARD_NUM_TRANSFER_KINDS, 100, 64, 2000000, 2) }

\* The subscriptions node 21 makes.
SubscribesNode21 ==
    { Subscribe(CanardTransferKindMessage, 100, 64, 2000000, 1),
      Subscribe(CanardTransferKindRequest, 5, 48, 1000000, 2) }

\* The subscription node 22 makes, and node 23.
SubscribesNode22 ==
    { Subscribe(CanardTransferKindMessage, 100, 64, 2000000, 1) }

\* The subscriptions an anonymous node makes.
SubscribesAnonymous ==
    { Subscribe(CanardTransferKindRequest, 5, 128, 1000000, 1),
      Subscribe(CanardTransferKindResponse, 5, 128, 1000000, 2) }

\* The transfers node 22 pushes on Classic CAN: messages of one frame and of two with the
\* same CAN-ID, and a response of one frame.
TransfersNode22 ==
    { Transfer(1000, 0, CanardTransferKindMessage, 1, CANARD_NODE_ID_UNSET, 0, <<1>>),
      Transfer(2000, 0, CanardTransferKindMessage, 1, CANARD_NODE_ID_UNSET, 1, Pattern(8)),
      Transfer(3000, 2, CanardTransferKindResponse, 5, 10, 35, <<16, 32, 48>>) }

\* The transfers node 30 pushes, whatever its MTU is: of 13 and 64 bytes.
TransfersNode30 ==
    { Transfer(5000, 0, CanardTransferKindMessage, 100, CANARD_NODE_ID_UNSET, 33, Pattern(13)),
      Transfer(7000, 0, CanardTransferKindMessage, 100, CANARD_NODE_ID_UNSET, 4, Pattern(64)) }

\* What the application of an instance of this node-ID does with it: the transfers it
\* pushes, the subscriptions it makes and removes, and the calls of canardRxAccept its
\* driver makes. The nodes 20, 21 and 23 and the anonymous node receive only, node 30
\* transmits only.
Application(node) ==
    IF node = 20
    THEN [transfers |-> {}, subscribes |-> SubscribesNode20, accepts |-> BusNode20]
    ELSE IF node = 21
    THEN [transfers |-> {}, subscribes |-> SubscribesNode21, accepts |-> BusNode21]
    ELSE IF node = 22
    THEN [transfers |-> TransfersNode22, subscribes |-> SubscribesNode22,
          accepts |-> {Accept(MessageFrom10)}]
    ELSE IF node = 23
    THEN [transfers |-> {}, subscribes |-> SubscribesNode22, accepts |-> BusNode23]
    ELSE IF node = 30
    THEN [transfers |-> TransfersNode30, subscribes |-> {}, accepts |-> {}]
    ELSE [transfers |-> {}, subscribes |-> SubscribesAnonymous,
          accepts |-> BusAnonymous]

\* The node-IDs and the values of mtu_bytes the applications write: node 30 writes values
\* on both sides of the steps of the DLC table.
AllConfigurations ==
    { <<20, CANARD_MTU_CAN_CLASSIC>>, <<21, CANARD_MTU_CAN_FD>>, <<22, CANARD_MTU_CAN_CLASSIC>>,
      <<23, CANARD_MTU_CAN_CLASSIC>>,
      <<CANARD_NODE_ID_UNSET, CANARD_MTU_CAN_FD>>,
      <<30, 0>>, <<30, 5>>, <<30, 12>>, <<30, 33>>, <<30, 49>>, <<30, 255>> }

\* The subscription objects a walk over the next pointers meets from sub on, in at most
\* fuel steps.
RECURSIVE SubscriptionWalk(_, _, _)
SubscriptionWalk(sb, sub, fuel) ==
    IF sub = NULL \/ fuel = 0 THEN <<>>
    ELSE <<sub>> \o SubscriptionWalk(sb, sb[sub].next, fuel - 1)

\* The subscription object is linked into one of the lists of the instance.
IsLinked(sb, rs, sub) ==
    \E k \in TransferKinds :
       LET walk == SubscriptionWalk(sb, rs[k], Cardinality(SubObjs))
       IN \E i \in 1..Len(walk) : walk[i] = sub

\* What the frames heard so far say of a source after one more frame of it: a frame that
\* starts a transfer sets the start to its timestamp, and the transfer is open until a frame
\* ends it; a frame that starts none continues or ends the transfer that is open.
HeardNext(old, src, frame) ==
    IF frame.start_of_transfer
    THEN [start |-> frame.timestamp_usec, open |-> ~frame.end_of_transfer]
    ELSE [old[src] EXCEPT !.open = @ /\ ~frame.end_of_transfer]

\* heard after a call of canardRxAccept: a frame of the protocol that has a source, is for
\* this node and finds a subscription is heard by that subscription.
Hear(frame, null_args) ==
    IF /\ null_args = {}
       /\ frame.extended_can_id <= CAN_EXT_ID_MASK
       /\ frame.payload_size > 0 /\ ~frame.payload_null
    THEN LET parsed == tryParseFrame(frame)
             sub == findSubscription(subs, rx_subscriptions[parsed.model.transfer_kind], parsed.model.port_id)
             src == parsed.model.source_node_id
         IN IF /\ parsed.valid
               /\ src <= CANARD_NODE_ID_MAX
               /\ parsed.model.destination_node_id \in {CANARD_NODE_ID_UNSET, node_id}
               /\ sub # NULL
               /\ (parsed.model.start_of_transfer \/ src \in DOMAIN heard[sub])
            THEN [heard EXCEPT ![sub] =
                     [n \in DOMAIN @ \cup {src} |->
                         IF n = src THEN HeardNext(heard[sub], src, parsed.model) ELSE @[n]]]
            ELSE heard
    ELSE heard

RxAccept(frame, null_args, fail) ==
    \E m \in {canardRxAccept(Start(fail), node_id, frame, 0, null_args)} :
       /\ heap' = m.heap
       /\ rx_subscriptions' = m.rx_subscriptions
       /\ subs' = m.subs
       /\ heard' = Hear(frame, null_args)
       /\ last' = [Call("rx_accept", m) EXCEPT !.frame = frame, !.null_args = null_args]
       /\ UNCHANGED <<node_id, mtu_bytes, tx_queue, pushed, deadlines, groups>>

\* The application gives canardRxSubscribe a subscription object that is not linked, or the
\* one that is linked under this very kind and port.
RxSubscribe(s) ==
    /\ \A k \in TransferKinds :
          <<k, s.out_subscription>> \in Linked(subs, rx_subscriptions)
             => k = s.transfer_kind /\ subs[s.out_subscription].port_id = s.port_id
    /\ \E m \in {canardRxSubscribe(Start(0), s.transfer_kind, s.port_id, s.payload_size_bytes_max, s.transfer_id_timeout_usec, s.out_subscription)} :
          /\ heap' = m.heap
          /\ rx_subscriptions' = m.rx_subscriptions
          /\ subs' = m.subs
          /\ heard' = [sub \in SubObjs |->
                          IF (m.ret >= 0 /\ sub = s.out_subscription) \/ ~IsLinked(m.subs, m.rx_subscriptions, sub)
                          THEN NothingHeard ELSE heard[sub]]
          /\ last' = [Call("rx_subscribe", m) EXCEPT !.subscribe = s]
          /\ UNCHANGED <<node_id, mtu_bytes, tx_queue, pushed, deadlines, groups>>

RxUnsubscribe(transfer_kind, port_id) ==
    \E m \in {canardRxUnsubscribe(Start(0), transfer_kind, port_id)} :
       /\ heap' = m.heap
       /\ rx_subscriptions' = m.rx_subscriptions
       /\ subs' = m.subs
       /\ last' = [Call("rx_unsubscribe", m) EXCEPT
                      !.subscribe = [NoSubscribe EXCEPT !.transfer_kind = transfer_kind,
                                                        !.port_id = port_id]]
       /\ heard' = [sub \in SubObjs |->
                       IF IsLinked(m.subs, m.rx_subscriptions, sub) THEN heard[sub] ELSE NothingHeard]
       /\ UNCHANGED <<node_id, mtu_bytes, tx_queue, pushed, deadlines, groups>>

\* The allocator may refuse the request canardRxAccept makes for a session.
AcceptFailPoints(call) ==
    0..Len(canardRxAccept(Start(0), node_id, call.frame, 0, call.null_args).allocs)

Next ==
    \/ \E c \in AllConfigurations : Configure(c)
    \/ \E transfer \in Application(node_id).transfers : \E fail \in FailPoints(transfer) : TxPush(transfer, fail)
    \/ TxPeek
    \/ TxPop
    \/ \E call \in Application(node_id).accepts : \E fail \in AcceptFailPoints(call) : RxAccept(call.frame, call.null_args, fail)
    \/ \E s \in Application(node_id).subscribes : RxSubscribe(s)
    \/ \E s \in Application(node_id).subscribes : RxUnsubscribe(s.transfer_kind, s.port_id)

\* Any sequence of calls of the API on one instance.
Spec == Init /\ [][Next]_vars

\* ------------------------------------------------------------ observations

\* The addresses of the items of the list that starts at q, from head to tail.
RECURSIVE QueueSeq(_, _)
QueueSeq(h, q) == IF q = NULL THEN <<>> ELSE <<q>> \o QueueSeq(h, h[q].next)

TxQueue == QueueSeq(heap, tx_queue)

\* The queue as it was when the most recent call began.
PreTxQueue == QueueSeq(last.pre_heap, last.pre_queue)

Range(seq) == {seq[i] : i \in 1..Len(seq)}

Position(seq, a) == CHOOSE i \in 1..Len(seq) : seq[i] = a

\* The frame a queue item holds, as canardTxPeek hands it to the driver.
FrameOf(h, tqi) ==
    [timestamp_usec |-> h[tqi].deadline_usec, extended_can_id |-> h[tqi].id,
     payload_size |-> h[tqi].payload_size, payload |-> h[tqi].payload]

\* The frames of a list of items, in order.
FramesOf(h, items) == [i \in 1..Len(items) |-> FrameOf(h, items[i])]

\* ------------------------------------------------------------ the properties

\* C1: in every state reached by pushes (single-frame and multi-frame, some of them
\* refused memory) and pops, the TX queue is sorted by CAN-ID in non-decreasing order from
\* head to tail, and two queued frames of equal CAN-ID stand in the order of their pushes.
C1_QueueSortedStable ==
    /\ Range(TxQueue) = Range(pushed)
    /\ Len(TxQueue) = Len(pushed)
    /\ \A i, j \in 1..Len(TxQueue) :
          i < j =>
             /\ heap[TxQueue[i]].id <= heap[TxQueue[j]].id
             /\ heap[TxQueue[i]].id = heap[TxQueue[j]].id
                   => Position(pushed, TxQueue[i]) < Position(pushed, TxQueue[j])

\* A push has just put a frame between two queued frames of equal CAN-ID: the queue holds
\* three frames, two of one CAN-ID, in an order that is not the order of the pushes.
C1_Witness ==
    /\ last.op = "tx_push" /\ last.ret = 1
    /\ Len(TxQueue) = 3
    /\ TxQueue # pushed
    /\ \E i, j \in 1..3 : i < j /\ heap[TxQueue[i]].id = heap[TxQueue[j]].id
    /\ \E i, j \in 1..3 : heap[TxQueue[i]].id < heap[TxQueue[j]].id

\* The queued item of the smallest CAN-ID and, among those, the one pushed first.
FirstToSend ==
    CHOOSE a \in Range(pushed) :
        \A b \in Range(pushed) \ {a} :
            \/ heap[a].id < heap[b].id
            \/ heap[a].id = heap[b].id /\ Position(pushed, a) < Position(pushed, b)

\* C2: the head of the queue, which canardTxPeek exposes, is always the queued frame of the
\* smallest CAN-ID and among those the one pushed first; canardTxPeek returns that frame
\* with 1 and changes nothing, and returns 0 when nothing is queued.
C2_PeekSmallestEarliest ==
    /\ pushed # <<>> => tx_queue = FirstToSend
    /\ last.op = "tx_peek" =>
          /\ heap = last.pre_heap /\ tx_queue = last.pre_queue
          /\ IF pushed = <<>>
             THEN last.ret = 0
             ELSE last.ret = 1 /\ last.out_frame = FrameOf(heap, FirstToSend)

\* A of CAN-ID 0x200, B of CAN-ID 0x100 and C of CAN-ID 0x200 were pushed in this order, and
\* canardTxPeek has exposed B.
C2_Witness ==
    /\ last.op = "tx_peek" /\ last.ret = 1
    /\ Len(pushed) = 3
    /\ heap[pushed[1]].id = 512 /\ heap[pushed[2]].id = 256 /\ heap[pushed[3]].id = 512
    /\ last.out_frame.extended_can_id = 256
    /\ tx_queue = pushed[2]

\* C3: when the allocator returns NULL for a frame of a multi-frame transfer, canardTxPush
\* returns -CANARD_ERROR_OUT_OF_MEMORY, the queue and every queued item are as they were
\* before the call, and every item the call allocated was freed exactly once, while live.
C3_MultiFrameOutOfMemory ==
    (/\ last.op = "tx_push"
     /\ last.transfer.payload_size > mtu_bytes - 1
     /\ NULL \in Range(last.allocs))
    => /\ last.ret = -CANARD_ERROR_OUT_OF_MEMORY
       /\ tx_queue = last.pre_queue
       /\ TxQueue = PreTxQueue
       /\ \A a \in Range(TxQueue) : heap[a] = last.pre_heap[a]
       /\ heap = last.pre_heap
       /\ pushed = last.pre_pushed
       /\ \A a \in Range(last.allocs) \ {NULL} :
             Cardinality({k \in 1..Len(last.frees) : last.frees[k].ptr = a}) = 1
       /\ \A k \in 1..Len(last.frees) :
             last.frees[k].live /\ last.frees[k].ptr \in Range(last.allocs)

\* The allocator has refused the third frame of a three-frame transfer while another frame
\* was queued, and the two items allocated before it were freed.
C3_Witness ==
    /\ last.op = "tx_push" /\ last.ret = -CANARD_ERROR_OUT_OF_MEMORY
    /\ Len(last.allocs) = 3 /\ last.allocs[3] = NULL
    /\ Len(last.frees) = 2
    /\ tx_queue # NULL

\* The items the most recent call added to the queue, in queue order.
NewItems == SelectSeq(TxQueue, LAMBDA a : a \notin Range(PreTxQueue))

\* The frames the most recent call added to the queue, in queue order.
NewFrames == FramesOf(heap, NewItems)

\* A receiving instance after canardInit and one canardRxSubscribe to (kind, port) with room
\* for the largest payload sent.
Receiver(kind, port) ==
    canardRxSubscribe(Work([a \in Addrs |-> FreeBlock], NULL, [k \in TransferKinds |-> NULL],
                           [sb \in SubObjs |-> BlankSubscription], 0),
                      kind, port, 255, 2000000, 1)

\* A frame of the sender's queue as the receiver's driver hands it to canardRxAccept.
ReceivedFrame(frame) ==
    [timestamp_usec |-> frame.timestamp_usec, extended_can_id |-> frame.extended_can_id,
     payload_size |-> frame.payload_size, payload |-> frame.payload, payload_null |-> FALSE]

\* canardRxAccept for each of the frames from the i-th on, in order; the result is that of
\* the last call.
RECURSIVE acceptFrames(_, _, _, _)
acceptFrames(m, rx_node_id, frames, i) ==
    IF i > Len(frames) THEN m
    ELSE acceptFrames(canardRxAccept([m EXCEPT !.allocs = <<>>, !.frees = <<>>], rx_node_id,
                                     ReceivedFrame(frames[i]), 0, {}),
                      rx_node_id, frames, i + 1)

\* The frames of the most recent push fed to a receiver subscribed to the transfer's kind
\* and port; for a service transfer the receiver is the node the transfer is addressed to.
RoundTrip ==
    acceptFrames(Receiver(last.transfer.transfer_kind, last.transfer.port_id),
                 IF last.transfer.transfer_kind = CanardTransferKindMessage
                 THEN 99 ELSE last.transfer.remote_node_id,
                 NewFrames, 1)

\* C4: the frames canardTxPush produced for a valid transfer T, fed in queue order to
\* canardRxAccept of a receiver subscribed to T's kind and port, end with canardRxAccept
\* returning 1 and an output transfer of T's priority, kind, port-ID and transfer-ID, the
\* sender's node-ID as the remote node, and T's payload byte for byte.
C4_RoundTrip ==
    (last.op = "tx_push" /\ last.ret > 0 /\ last.transfer.transfer_id <= CANARD_TRANSFER_ID_MAX) =>
       \E r \in {RoundTrip} :
          /\ r.ret = 1
          /\ r.out_transfer # <<>>
          /\ r.out_transfer.priority = last.transfer.priority
          /\ r.out_transfer.transfer_kind = last.transfer.transfer_kind
          /\ r.out_transfer.port_id = last.transfer.port_id
          /\ r.out_transfer.transfer_id = last.transfer.transfer_id
          /\ r.out_transfer.remote_node_id = node_id
          /\ r.out_transfer.payload_size = last.transfer.payload_size
          /\ r.out_transfer.payload = last.transfer.payload


CeilDiv(a, b) == (a + b - 1) \div b

\* C5: a successful canardTxPush returns the number of frames it added and the queue grows
\* by that number: 1 when payload_size <= MTU - 1 (7 or 63), ceil((payload_size + 2) /
\* (MTU - 1)) >= 2 when it is larger; a push that returns an error adds none.
C5_PushReturnsFrameCount ==
    last.op = "tx_push" =>
       /\ last.ret # 0
       /\ last.ret > 0 =>
             /\ Len(TxQueue) = Len(PreTxQueue) + last.ret
             /\ Len(NewItems) = last.ret
             /\ Range(PreTxQueue) \subseteq Range(TxQueue)
             /\ IF last.transfer.payload_size <= mtu_bytes - 1
                THEN last.ret = 1
                ELSE /\ last.ret = CeilDiv(last.transfer.payload_size + 2, mtu_bytes - 1)
                     /\ last.ret >= 2
       /\ last.ret < 0 => TxQueue = PreTxQueue /\ NewItems = <<>>

\* A push of 100 bytes at MTU 64 has returned 2 and put two frames into a queue that held one.
C5_Witness ==
    /\ last.op = "tx_push" /\ last.ret = 2
    /\ last.transfer.payload_size = 100
    /\ Len(PreTxQueue) = 1 /\ Len(TxQueue) = 3

\* The conditions the specification lists for -CANARD_ERROR_INVALID_ARGUMENT.
ListedInvalid(t) ==
    \/ t.transfer_kind = CanardTransferKindMessage
          /\ (t.remote_node_id # CANARD_NODE_ID_UNSET \/ t.port_id > 8191)
    \/ t.transfer_kind \in {CanardTransferKindRequest, CanardTransferKindResponse}
          /\ (t.remote_node_id > 127 \/ t.port_id > 511)
    \/ t.transfer_kind \in {CanardTransferKindRequest, CanardTransferKindResponse}
          /\ node_id > 127
    \/ t.priority > 7
    \/ t.payload_null /\ t.payload_size # 0

\* A payload that an anonymous node may send: the node has an ID, or the payload fits one frame.
AnonymousLegalSize(t) == node_id <= 127 \/ t.payload_size <= mtu_bytes - 1

\* The push was refused as invalid before it touched the allocator or the queue.
RefusedUntouched ==
    /\ last.ret = -CANARD_ERROR_INVALID_ARGUMENT
    /\ last.allocs = <<>> /\ last.frees = <<>>
    /\ heap = last.pre_heap /\ tx_queue = last.pre_queue

FrameBody(frame) == SubSeq(frame.payload, 1, Len(frame.payload) - 1)

TailByte(frame) == frame.payload[Len(frame.payload)]

Bit(x, mask) == BitAnd(x, mask) # 0

\* C7: an anonymous instance refuses a message whose payload exceeds MTU - 1 with
\* -CANARD_ERROR_INVALID_ARGUMENT and leaves the queue unchanged; every frame in its queue
\* is a single-frame transfer (SOT, EOT and toggle set) with the anonymous flag, bit 24,
\* set; and the frame it queues carries crc16(0xFFFF, payload) & 0x7F in bits 0..6.
C7_AnonymousSingleFrameOnly ==
    node_id > CANARD_NODE_ID_MAX =>
       /\ (/\ last.op = "tx_push"
           /\ last.transfer.transfer_kind = CanardTransferKindMessage
           /\ last.transfer.payload_size > mtu_bytes - 1) => RefusedUntouched
       /\ \A a \in Range(TxQueue) :
             /\ Bit(TailByte(FrameOf(heap, a)), 128)
             /\ Bit(TailByte(FrameOf(heap, a)), 64)
             /\ Bit(TailByte(FrameOf(heap, a)), 32)
             /\ Bit(heap[a].id, 16777216)
       /\ (last.op = "tx_push" /\ last.ret > 0) =>
             /\ Len(NewFrames) = 1
             /\ NewFrames[1].extended_can_id % 128
                   = crcAdd(65535, last.transfer.payload) % 128

\* An anonymous node at MTU 64 has queued the message <<0xAA, 0xBB>> of subject 100 behind
\* another frame: one frame, tail byte 0xE0.
C7_Witness ==
    /\ node_id = CANARD_NODE_ID_UNSET /\ mtu_bytes = CANARD_MTU_CAN_FD
    /\ last.op = "tx_push" /\ last.ret = 1
    /\ last.transfer.payload = <<170, 187>>
    /\ Len(TxQueue) = 2
    /\ Len(NewFrames) = 1 /\ TailByte(NewFrames[1]) = 224
    /\ NewFrames[1].extended_can_id % 128 # 0

\* C8: the frames of a pushed transfer, taken in queue order with index i = 0..n-1, end in
\* a tail byte with SOT set iff i = 0, EOT set iff i = n-1, the toggle bit set iff i is
\* even, and the transfer-ID modulo 32 in bits 0..4; a single frame has SOT, EOT and toggle.
C8_TailBytes ==
    (last.op = "tx_push" /\ last.ret > 0) =>
       LET n == Len(NewFrames)
       IN /\ n = last.ret
          /\ \A k \in 1..n :
                LET i == k - 1
                    tail == TailByte(NewFrames[k])
                IN /\ NewFrames[k].payload_size = Len(NewFrames[k].payload)
                   /\ Bit(tail, 128) <=> (i = 0)
                   /\ Bit(tail, 64) <=> (i = n - 1)
                   /\ Bit(tail, 32) <=> (i % 2 = 0)
                   /\ tail % 32 = last.transfer.transfer_id % 32
          /\ n = 1 => TailByte(NewFrames[1]) \div 32 = 7

\* A transfer of three frames with transfer-ID 36 was pushed: the tail bytes are 0xA4, 0x04
\* and 0x64.
C8_Witness ==
    /\ last.op = "tx_push" /\ last.ret = 3
    /\ last.transfer.transfer_id = 36
    /\ Len(NewFrames) = 3
    /\ TailByte(NewFrames[1]) = 164 /\ TailByte(NewFrames[2]) = 4 /\ TailByte(NewFrames[3]) = 100

RECURSIVE Flatten(_)
Flatten(seqs) == IF seqs = <<>> THEN <<>> ELSE Head(seqs) \o Flatten(Tail(seqs))

\* The bytes the frames of the most recent push carry in front of their tail bytes.
NewStream == Flatten([k \in 1..Len(NewFrames) |-> FrameBody(NewFrames[k])])

NulBytes(n) == [k \in 1..n |-> 0]

\* C9: the frame bodies of a pushed multi-frame transfer, joined in queue order, are the
\* payload, then zero padding, then the high and the low byte of the CRC-16-CCITT (initial
\* value 0xFFFF) of payload and padding; when the payload leaves one byte of room in a frame
\* the high byte fills it and the low byte is alone in the last frame; a single-frame
\* transfer carries the payload and zero padding and no CRC.
C9_MultiFrameCRC ==
    (last.op = "tx_push" /\ last.ret > 0) =>
       LET payload == SubSeq(last.transfer.payload, 1, last.transfer.payload_size)
           n == Len(NewFrames)
       IN IF n > 1
          THEN LET pad == Len(NewStream) - Len(payload) - 2
               IN /\ pad >= 0
                  /\ \E crc \in {crcAddFrom(crcAdd(65535, payload), NulBytes(pad), 1)} :
                        /\ NewStream = payload \o NulBytes(pad) \o <<crc \div 256, crc % 256>>
                        /\ Len(payload) % (mtu_bytes - 1) = mtu_bytes - 2 =>
                              /\ FrameBody(NewFrames[n]) = <<crc % 256>>
                              /\ NewFrames[n - 1].payload[mtu_bytes - 1] = crc \div 256
          ELSE /\ n = 1
               /\ NewStream = payload \o NulBytes(Len(NewStream) - Len(payload))

\* A payload of 13 bytes was pushed at MTU 8: three frames, the last of which holds one CRC
\* byte and the tail byte.
C9_Witness ==
    /\ last.op = "tx_push" /\ last.ret = 3
    /\ last.transfer.payload_size = 13
    /\ Len(NewFrames) = 3
    /\ NewFrames[3].payload_size = 2
    /\ Len(NewStream) = 15

\* C10: padding is 0x00 bytes in the last frame of a transfer only, behind the payload
\* bytes and in front of the CRC bytes; every frame of a multi-frame transfer but the last
\* holds MTU - 1 bytes of the payload and the CRC, and the tail byte.
C10_PaddingLastFrameOnly ==
    (last.op = "tx_push" /\ last.ret > 0) =>
       LET payload == SubSeq(last.transfer.payload, 1, last.transfer.payload_size)
           n == Len(NewFrames)
           mtu == mtu_bytes - 1
           crc == IF n > 1 THEN SubSeq(NewStream, Len(NewStream) - 1, Len(NewStream)) ELSE <<>>
           unpadded == payload \o crc
           sent == (n - 1) * mtu
           rest_payload == SubSeq(payload, sent + 1, Len(payload))
           rest_crc == SubSeq(unpadded, (IF sent > Len(payload) THEN sent ELSE Len(payload)) + 1,
                              Len(unpadded))
           padding == Len(FrameBody(NewFrames[n])) - Len(rest_payload) - Len(rest_crc)
       IN /\ n >= 1
          /\ \A k \in 1..(n - 1) :
                /\ NewFrames[k].payload_size = mtu + 1
                /\ FrameBody(NewFrames[k]) = SubSeq(unpadded, (k - 1) * mtu + 1, k * mtu)
          /\ padding >= 0
          /\ NewFrames[n].payload_size = Len(NewFrames[n].payload)
          /\ FrameBody(NewFrames[n]) = rest_payload \o NulBytes(padding) \o rest_crc

\* 100 bytes were pushed at MTU 64: a first frame of 63 payload bytes and a last frame of 37
\* payload bytes, 8 padding bytes and the CRC.
C10_Witness ==
    /\ last.op = "tx_push" /\ last.ret = 2
    /\ last.transfer.payload_size = 100
    /\ Len(NewFrames) = 2
    /\ NewFrames[1].payload_size = 64 /\ NewFrames[2].payload_size = 48
    /\ SubSeq(NewFrames[2].payload, 38, 45) = NulBytes(8)
    /\ NewFrames[2].payload[37] # 0

\* The largest value of mtu_bytes looked at by the properties of getPresentationLayerMTU.
MaxMtuBytes == 255

\* The lengths a CAN FD frame can have, zero left out.
ValidFrameLengths == (1..8) \cup {12, 16, 20, 24, 32, 48, 64}

\* C11: every frame in the TX queue has a length of {1..8, 12, 16, 20, 24, 32, 48, 64}, holds
\* as many bytes as its length says and is no longer than the presentation-layer MTU of the
\* instance plus one; the frames of a push hold the bytes of the transfer and behind them one
\* tail byte each; the presentation-layer MTU plus one is 8 for every mtu_bytes <= 8 and 64
\* for every mtu_bytes >= 49, and the MTU is 7 for Classic CAN and 63 for CAN FD.
C11_FrameLengths ==
    /\ \A a \in Range(TxQueue) :
          /\ heap[a].payload_size \in ValidFrameLengths
          /\ Len(heap[a].payload) = heap[a].payload_size
          /\ heap[a].payload_size <= getPresentationLayerMTU(mtu_bytes) + 1
    /\ (last.op = "tx_push" /\ last.ret > 0) =>
          LET n == Len(NewFrames)
              stream == Flatten([k \in 1..n |-> FrameBody(NewFrames[k])])
              size == last.transfer.payload_size
          IN /\ \A k \in 1..n :
                   TailByte(NewFrames[k]) =
                      (IF k = 1 THEN 128 ELSE 0) + (IF k = n THEN 64 ELSE 0)
                      + (IF k % 2 = 1 THEN 32 ELSE 0) + (last.transfer.transfer_id % 32)
             /\ Len(stream) >= size + (IF n > 1 THEN 2 ELSE 0)
             /\ SubSeq(stream, 1, size) = SubSeq(last.transfer.payload, 1, size)
    /\ mtu_bytes <= 8 => getPresentationLayerMTU(mtu_bytes) + 1 = 8
    /\ mtu_bytes >= 49 => getPresentationLayerMTU(mtu_bytes) + 1 = 64
    /\ mtu_bytes = CANARD_MTU_CAN_CLASSIC => getPresentationLayerMTU(mtu_bytes) = 7
    /\ mtu_bytes = CANARD_MTU_CAN_FD => getPresentationLayerMTU(mtu_bytes) = 63
    /\ last.op = "configure" =>
          \A mtu \in 0..MaxMtuBytes :
             /\ mtu <= 8 => getPresentationLayerMTU(mtu) + 1 = 8
             /\ mtu >= 49 => getPresentationLayerMTU(mtu) + 1 = 64
             /\ getPresentationLayerMTU(mtu) + 1 \in ValidFrameLengths

\* An instance whose mtu_bytes is 33 has queued 64 bytes behind a frame of 16: a frame of 48
\* and a frame of 20.
C11_Witness ==
    /\ mtu_bytes = 33
    /\ last.op = "tx_push" /\ last.ret = 2
    /\ Len(TxQueue) = 3
    /\ Len(NewFrames) = 2
    /\ NewFrames[1].payload_size = 48 /\ NewFrames[2].payload_size = 20
    /\ \E a \in Range(PreTxQueue) : heap[a].payload_size = 16

\* The subscription objects linked under a kind, from the head of the list to its tail, now
\* and when the most recent call began.
Subscriptions(kind) == SubscriptionSeq(subs, rx_subscriptions[kind])

PreSubscriptions(kind) == SubscriptionSeq(last.pre_subs, last.pre_rx_subscriptions[kind])

\* The blocks the session slots of a subscription object point to.
SessionsOf(sb, sub) == {sb[sub].sessions[i] : i \in DOMAIN sb[sub].sessions}

\* The blocks that are allocated.
Allocated(h) == {a \in Addrs : h[a].t # "free"}

\* The most recent call changed nothing of the instance and of the subscription objects,
\* and called neither memory_allocate nor memory_free.
Untouched ==
    /\ heap = last.pre_heap /\ tx_queue = last.pre_queue
    /\ subs = last.pre_subs /\ rx_subscriptions = last.pre_rx_subscriptions
    /\ last.allocs = <<>> /\ last.frees = <<>>

\* C12: canardTxPeek changes nothing of the instance, the subscriptions and the heap and
\* calls neither memory_allocate nor memory_free; it returns 0 when the queue is empty, and
\* otherwise 1 and the head's frame: as its timestamp the timestamp of the transfer given to
\* canardTxPush, its CAN-ID, its payload size and its payload; a peek that follows returns
\* the same.
C12_PeekDoesNotMutate ==
    last.op = "tx_peek" =>
       /\ Untouched
       /\ pushed = last.pre_pushed
       /\ IF tx_queue = NULL
          THEN last.ret = 0 /\ last.out_frame = <<>>
          ELSE /\ last.ret = 1
               /\ last.out_frame.timestamp_usec = deadlines[PushedAt(tx_queue)]
               /\ last.out_frame.extended_can_id = heap[tx_queue].id
               /\ last.out_frame.payload_size = heap[tx_queue].payload_size
               /\ last.out_frame.payload = heap[tx_queue].payload
       /\ \E again \in {canardTxPeek(Start(0))} :
             again.ret = last.ret /\ again.out_frame = last.out_frame

\* Node 22, subscribed and with a session, has peeked at a queue of two frames whose head
\* is the frame of the transfer of timestamp 1000.
C12_Witness ==
    /\ node_id = 22
    /\ last.op = "tx_peek" /\ last.ret = 1
    /\ Len(TxQueue) = 2
    /\ last.out_frame.timestamp_usec = 1000
    /\ \E d \in Range(deadlines) : d # 1000
    /\ \E sub \in Range(Subscriptions(CanardTransferKindMessage)) : SessionsOf(subs, sub) # {}

\* C13: canardTxPop of a non-empty queue unlinks the head and frees that one block, and the
\* frames behind it are as they were and in their order; of an empty queue it changes and
\* frees nothing. Every other call leaves each queued frame in the queue, unchanged and in
\* its place relative to the others: whatever the deadlines are, a frame leaves the queue
\* only as the head that is popped.
C13_PopHeadOnly ==
    /\ last.op = "tx_pop" =>
          /\ last.allocs = <<>>
          /\ subs = last.pre_subs /\ rx_subscriptions = last.pre_rx_subscriptions
          /\ IF last.pre_queue # NULL
             THEN /\ TxQueue = Tail(PreTxQueue)
                  /\ last.frees = <<[ptr |-> last.pre_queue, live |-> TRUE]>>
                  /\ heap[last.pre_queue] = FreeBlock
                  /\ \A a \in Addrs \ {last.pre_queue} : heap[a] = last.pre_heap[a]
             ELSE /\ tx_queue = NULL
                  /\ last.frees = <<>>
                  /\ heap = last.pre_heap
    /\ last.op \in {"tx_push", "tx_peek", "rx_accept", "rx_subscribe", "rx_unsubscribe"} =>
          /\ SelectSeq(TxQueue, LAMBDA a : a \in Range(PreTxQueue)) = PreTxQueue
          /\ \A a \in Range(PreTxQueue) :
                /\ FrameOf(heap, a) = FrameOf(last.pre_heap, a)
                /\ \A k \in 1..Len(last.frees) : last.frees[k].ptr # a

\* Node 22 has popped the head of a queue of two frames while it held a session; one frame
\* is left.
C13_Witness ==
    /\ node_id = 22
    /\ last.op = "tx_pop"
    /\ Len(PreTxQueue) = 2 /\ Len(TxQueue) = 1
    /\ Len(last.frees) = 1
    /\ \E sub \in Range(Subscriptions(CanardTransferKindMessage)) : SessionsOf(subs, sub) # {}

\* The subscription objects that are linked into the instance.
LinkedSubs == {ks[2] : ks \in Linked(subs, rx_subscriptions)}

\* The session slots that are not empty: the subscription object and the index of the slot.
HeldSlots == {<<sub, i>> : sub \in SubObjs, i \in 0..(SESSIONS_PER_SUBSCRIPTION - 1)} \cap
             UNION {{<<sub, i>> : i \in DOMAIN subs[sub].sessions} : sub \in SubObjs}

\* C14: whatever sequence of pushes, pops, accepts, subscriptions and removals of
\* subscriptions was made and whichever allocations were refused, the blocks allocated are
\* the items of the TX queue and the sessions in the slots of the linked subscriptions, each
\* block once; every pointer the most recent call gave to memory_free was an allocated block
\* when it was given; and with an empty queue and no subscription no block is allocated.
C14_NoLeakNoDoubleFree ==
    /\ Allocated(heap) = Range(TxQueue) \cup UNION {SessionsOf(subs, sub) : sub \in LinkedSubs}
    /\ Cardinality(Range(TxQueue)) = Len(TxQueue)
    /\ \A a \in Range(TxQueue) : heap[a].t = "tqi"
    /\ \A slot \in HeldSlots :
          /\ slot[1] \in LinkedSubs
          /\ heap[subs[slot[1]].sessions[slot[2]]].t = "rxs"
          /\ subs[slot[1]].sessions[slot[2]] \notin Range(TxQueue)
          /\ \A other \in HeldSlots :
                subs[other[1]].sessions[other[2]] = subs[slot[1]].sessions[slot[2]] => other = slot
    /\ \A k \in 1..Len(last.frees) :
          /\ last.frees[k].live
          /\ last.frees[k].ptr \in Allocated(last.pre_heap) \cup Range(last.allocs)
          /\ \A j \in 1..(k - 1) : last.frees[j].ptr # last.frees[k].ptr
    /\ (tx_queue = NULL /\ \A kind \in TransferKinds : rx_subscriptions[kind] = NULL) =>
          Allocated(heap) = {}

\* Node 20 has removed a subscription that held two sessions: both were freed, and with no
\* subscription left no block is allocated.
C14_Witness ==
    /\ node_id = 20
    /\ last.op = "rx_unsubscribe" /\ last.ret = 1
    /\ Len(last.frees) = 2
    /\ Cardinality(Allocated(last.pre_heap)) = 2
    /\ Allocated(heap) = {}
    /\ \A kind \in TransferKinds : rx_subscriptions[kind] = NULL

\* Node 22 has popped the last frame of its queue after its subscription and the session
\* were removed: no block is allocated.
C14_WitnessDrained ==
    /\ node_id = 22
    /\ last.op = "tx_pop" /\ Len(last.frees) = 1
    /\ Allocated(heap) = {}

\* The subscriptions of a list that have this port-ID, in the order of the list.
WithPort(sb, seq, port_id) == SelectSeq(seq, LAMBDA sub : sb[sub].port_id = port_id)

\* C15: canardRxSubscribe of a valid kind returns 1 when no subscription of the kind and
\* port was linked and 0 when one was; afterwards the one subscription linked for the kind
\* and port is the caller's object, with the extent and the timeout given and all its session
\* slots empty, and every session of the subscription replaced has been freed; nothing is
\* allocated and the TX queue is as it was. Of a kind out of the enumeration it returns
\* -CANARD_ERROR_INVALID_ARGUMENT and changes nothing.
C15_Subscribe ==
    last.op = "rx_subscribe" =>
       LET s == last.subscribe
       IN IF s.transfer_kind \in TransferKinds
          THEN LET old == WithPort(last.pre_subs, PreSubscriptions(s.transfer_kind), s.port_id)
                   gone == UNION {SessionsOf(last.pre_subs, sub) : sub \in Range(old)}
               IN /\ Len(old) <= 1
                  /\ last.ret = IF old = <<>> THEN 1 ELSE 0
                  /\ WithPort(subs, Subscriptions(s.transfer_kind), s.port_id) = <<s.out_subscription>>
                  /\ subs[s.out_subscription].payload_size_bytes_max = s.payload_size_bytes_max
                  /\ subs[s.out_subscription].transfer_id_timeout_usec = s.transfer_id_timeout_usec
                  /\ subs[s.out_subscription].sessions = NoSessions
                  /\ {last.frees[k].ptr : k \in 1..Len(last.frees)} = gone
                  /\ Len(last.frees) = Cardinality(gone)
                  /\ \A a \in Addrs : heap[a] = IF a \in gone THEN FreeBlock ELSE last.pre_heap[a]
                  /\ \A sub \in Range(old) : sub \notin LinkedSubs \ {s.out_subscription}
                  /\ last.allocs = <<>>
                  /\ tx_queue = last.pre_queue
                  /\ \A kind \in TransferKinds \ {s.transfer_kind} :
                        Subscriptions(kind) = PreSubscriptions(kind)
                  /\ \A sub \in SubObjs \ (Range(old) \cup {s.out_subscription}) :
                        /\ subs[sub].sessions = last.pre_subs[sub].sessions
                        /\ subs[sub].port_id = last.pre_subs[sub].port_id
          ELSE /\ last.ret = -CANARD_ERROR_INVALID_ARGUMENT
               /\ Untouched

\* Node 20 has subscribed to the subject 100 with its second object while its first was
\* subscribed to it and held two sessions: the call returned 0 and freed both.
C15_Witness ==
    /\ node_id = 20
    /\ last.op = "rx_subscribe" /\ last.ret = 0
    /\ last.subscribe.out_subscription = 2
    /\ Subscriptions(CanardTransferKindMessage) = <<2>>
    /\ PreSubscriptions(CanardTransferKindMessage) = <<1>>
    /\ Cardinality(SessionsOf(last.pre_subs, 1)) = 2
    /\ Len(last.frees) = 2
    /\ subs[2].payload_size_bytes_max = 16

\* Node 20 has called canardRxSubscribe with a kind out of the enumeration while a
\* subscription with a session was linked.
C15_WitnessInvalidKind ==
    /\ last.op = "rx_subscribe" /\ last.ret = -CANARD_ERROR_INVALID_ARGUMENT
    /\ last.subscribe.transfer_kind = CANARD_NUM_TRANSFER_KINDS
    /\ Allocated(heap) # {}

\* What the bits of a frame's CAN-ID say: bit 25 tells a service frame from a message frame
\* and bit 24 a request from a response or an anonymous message from one with a source; the
\* subject-ID is in the bits 8..20, the service-ID in the bits 14..22, the destination in the
\* bits 7..13 and the source in the bits 0..6.
IDBit(frame, n) == (frame.extended_can_id \div Pow2(n)) % 2 = 1

FrameKind(frame) ==
    IF ~IDBit(frame, 25) THEN CanardTransferKindMessage
    ELSE IF IDBit(frame, 24) THEN CanardTransferKindRequest ELSE CanardTransferKindResponse

FramePort(frame) ==
    IF ~IDBit(frame, 25) THEN (frame.extended_can_id \div Pow2(8)) % Pow2(13)
    ELSE (frame.extended_can_id \div Pow2(14)) % Pow2(9)

FrameAnonymous(frame) == ~IDBit(frame, 25) /\ IDBit(frame, 24)

FrameSource(frame) == frame.extended_can_id % Pow2(7)

FrameDestination(frame) == (frame.extended_can_id \div Pow2(7)) % Pow2(7)

\* The frames the driver of this node hands to canardRxAccept.
Bus == {call.frame : call \in Application(node_id).accepts}

\* C16: canardRxUnsubscribe of a valid kind returns 1 when a subscription of the kind and
\* port was linked and 0 when none was. On 1 that subscription is linked no longer, each of
\* its sessions has been freed and its slots are empty, and canardRxAccept ignores the frames
\* of that kind and port; the other subscriptions, their order and their sessions, every
\* other block and the TX queue are as they were. On 0 nothing has changed.
C16_Unsubscribe ==
    (last.op = "rx_unsubscribe" /\ last.subscribe.transfer_kind \in TransferKinds) =>
       LET kind == last.subscribe.transfer_kind
           port == last.subscribe.port_id
           old == WithPort(last.pre_subs, PreSubscriptions(kind), port)
           gone == UNION {SessionsOf(last.pre_subs, sub) : sub \in Range(old)}
       IN /\ last.ret = IF old = <<>> THEN 0 ELSE 1
          /\ last.ret = 0 => Untouched
          /\ last.ret = 1 =>
                /\ \A sub \in Range(old) : sub \notin LinkedSubs /\ subs[sub].sessions = NoSessions
                /\ WithPort(subs, Subscriptions(kind), port) = <<>>
                /\ {last.frees[k].ptr : k \in 1..Len(last.frees)} = gone
                /\ Len(last.frees) = Cardinality(gone)
                /\ \A a \in Addrs : heap[a] = IF a \in gone THEN FreeBlock ELSE last.pre_heap[a]
                /\ last.allocs = <<>>
                /\ tx_queue = last.pre_queue
                /\ Subscriptions(kind) = SelectSeq(PreSubscriptions(kind), LAMBDA sub : sub \notin Range(old))
                /\ \A other \in TransferKinds \ {kind} : Subscriptions(other) = PreSubscriptions(other)
                /\ \A sub \in SubObjs \ Range(old) :
                      /\ subs[sub].sessions = last.pre_subs[sub].sessions
                      /\ subs[sub].port_id = last.pre_subs[sub].port_id
                      /\ subs[sub].payload_size_bytes_max = last.pre_subs[sub].payload_size_bytes_max
                      /\ subs[sub].transfer_id_timeout_usec = last.pre_subs[sub].transfer_id_timeout_usec
                /\ \A frame \in Bus :
                      (FrameKind(frame) = kind /\ FramePort(frame) = port) =>
                         \A fail \in 0..1 :
                            \E m \in {canardRxAccept(Start(fail), node_id, frame, 0, {})} :
                               /\ m.ret \in {0, -CANARD_ERROR_INVALID_ARGUMENT}
                               /\ m.allocs = <<>> /\ m.frees = <<>> /\ m.out_transfer = <<>>
                               /\ m.heap = heap /\ m.subs = subs
                               /\ m.rx_subscriptions = rx_subscriptions

\* Node 20 has removed its subscription to the subject 100, which was behind the one to the
\* subject 7 in the list and held two sessions: the one to the subject 7 is still linked.
C16_Witness ==
    /\ node_id = 20
    /\ last.op = "rx_unsubscribe" /\ last.ret = 1
    /\ last.subscribe.port_id = 100
    /\ PreSubscriptions(CanardTransferKindMessage) = <<2, 1>>
    /\ Subscriptions(CanardTransferKindMessage) = <<2>>
    /\ Len(last.frees) = 2

\* Node 20 has removed its subscription to the subject 100 and its session while its
\* subscription to the requests of service 5 held a session, and holds it still.
C16_WitnessOtherSession ==
    /\ node_id = 20
    /\ last.op = "rx_unsubscribe" /\ last.ret = 1
    /\ last.subscribe.transfer_kind = CanardTransferKindMessage
    /\ Len(last.frees) >= 1
    /\ Subscriptions(CanardTransferKindRequest) = <<2>>
    /\ SessionsOf(subs, 2) # {}

\* The most recent call of canardRxAccept got pointers that are not NULL, a CAN-ID of 29
\* bits and a payload pointer that is not NULL unless the payload is empty.
AcceptArgumentsValid ==
    /\ last.null_args = {}
    /\ last.frame.extended_can_id < Pow2(29)
    /\ ~(last.frame.payload_null /\ last.frame.payload_size # 0)

\* A bit of the tail byte of a frame that has one: 7 is the start of the transfer, 6 its end
\* and 5 the toggle.
TailBit(frame, n) == frame.payload_size > 0 /\ (frame.payload[frame.payload_size] \div Pow2(n)) % 2 = 1

\* The subscriptions of the kind and the port of the frame that were linked when the most
\* recent call began.
SubscribedTo(frame) == WithPort(last.pre_subs, PreSubscriptions(FrameKind(frame)), FramePort(frame))

\* The frames that are no frames of the protocol, or none for this node.
NoPayload(frame) == frame.payload_size = 0

ReservedBitSet(frame) ==
    IF IDBit(frame, 25) THEN IDBit(frame, 23) ELSE IDBit(frame, 23) \/ IDBit(frame, 7)

StartWithoutToggle(frame) == TailBit(frame, 7) /\ ~TailBit(frame, 5)

AnonymousMultiFrame(frame) == FrameAnonymous(frame) /\ ~(TailBit(frame, 7) /\ TailBit(frame, 6))

MisAddressed(frame) == IDBit(frame, 25) /\ FrameDestination(frame) # node_id

\* C17: canardRxAccept, given valid arguments, returns 0, allocates and frees nothing and
\* leaves the sessions, the subscriptions and the output transfer as they were for a frame
\* without payload bytes, a message frame with bit 23 or bit 7 set, a service frame with bit
\* 23 set, a frame that starts a transfer with the toggle bit clear, an anonymous frame that
\* is not a whole transfer, a service frame for another node-ID than the local one (any
\* service frame when the local one is unset), and a frame to whose kind and port no
\* subscription is linked.
C17_Ignored ==
    (/\ last.op = "rx_accept"
     /\ AcceptArgumentsValid
     /\ \/ NoPayload(last.frame)
        \/ ReservedBitSet(last.frame)
        \/ StartWithoutToggle(last.frame)
        \/ AnonymousMultiFrame(last.frame)
        \/ MisAddressed(last.frame)
        \/ SubscribedTo(last.frame) = <<>>)
    => /\ last.ret = 0
       /\ Untouched
       /\ last.out_transfer = <<>>
       /\ (node_id = CANARD_NODE_ID_UNSET /\ IDBit(last.frame, 25)) => MisAddressed(last.frame)

\* Node 21, subscribed to the subject 100 and to the requests of service 5 and holding a
\* session, was given a frame of the subject 100 that starts a transfer with the toggle bit
\* clear, and ignored it.
C17_Witness ==
    /\ node_id = 21
    /\ last.op = "rx_accept" /\ last.ret = 0
    /\ AcceptArgumentsValid
    /\ StartWithoutToggle(last.frame)
    /\ ~NoPayload(last.frame) /\ ~ReservedBitSet(last.frame) /\ ~MisAddressed(last.frame)
    /\ SubscribedTo(last.frame) # <<>>
    /\ Allocated(heap) # {}

\* C18: canardRxAccept returns -CANARD_ERROR_INVALID_ARGUMENT and changes nothing, the output
\* transfer included, when the CAN-ID of the frame exceeds 0x1FFFFFFF, when the instance,
\* the frame or the output transfer is NULL, and when the payload pointer is NULL while the
\* payload size is not zero; a frame whose CAN-ID is out of range is not delivered although
\* its low 29 bits are those of a frame that is.
C18_InvalidArgument ==
    (last.op = "rx_accept" /\ ~AcceptArgumentsValid) =>
       /\ last.ret = -CANARD_ERROR_INVALID_ARGUMENT
       /\ Untouched
       /\ last.out_transfer = <<>>

\* Node 21, subscribed to the subject 100, was given the anonymous message of that subject
\* with bit 29 of the CAN-ID set: the call returned -CANARD_ERROR_INVALID_ARGUMENT, while
\* the frame of the low 29 bits of that CAN-ID would be delivered.
C18_Witness ==
    /\ node_id = 21
    /\ last.op = "rx_accept" /\ last.ret = -CANARD_ERROR_INVALID_ARGUMENT
    /\ last.null_args = {} /\ ~last.frame.payload_null
    /\ last.frame.extended_can_id >= Pow2(29)
    /\ \E m \in {canardRxAccept(Start(0), node_id, [last.frame EXCEPT !.extended_can_id = @ % Pow2(29)], 0, {})} :
          m.ret = 1
    /\ Allocated(heap) # {}

\* A frame of the protocol handed over with valid arguments.
ValidFrame(frame) ==
    /\ AcceptArgumentsValid
    /\ ~NoPayload(frame) /\ ~ReservedBitSet(frame)
    /\ ~StartWithoutToggle(frame) /\ ~AnonymousMultiFrame(frame)

\* C19: an anonymous message frame of one-frame transfer with the toggle bit set, to whose
\* subject a subscription is linked, is delivered by the call of canardRxAccept that gets
\* it: the call returns 1 and the transfer has the timestamp of the frame, the priority of
\* the bits 26..28, the kind message, the subject of the bits 8..20, the remote node-ID
\* unset, the transfer-ID of the bits 0..4 of the tail byte and as its payload the bytes in
\* front of the tail byte; no block is allocated or freed and the sessions and the
\* subscriptions are as they were, whatever the session slots hold.
C19_AnonymousDelivered ==
    (/\ last.op = "rx_accept"
     /\ ValidFrame(last.frame)
     /\ FrameAnonymous(last.frame)
     /\ TailBit(last.frame, 7) /\ TailBit(last.frame, 6) /\ TailBit(last.frame, 5)
     /\ SubscribedTo(last.frame) # <<>>)
    => /\ last.ret = 1
       /\ Untouched
       /\ last.out_transfer =
             [timestamp_usec |-> last.frame.timestamp_usec,
              priority |-> (last.frame.extended_can_id \div Pow2(26)) % 8,
              transfer_kind |-> CanardTransferKindMessage,
              port_id |-> (last.frame.extended_can_id \div Pow2(8)) % Pow2(13),
              remote_node_id |-> CANARD_NODE_ID_UNSET,
              transfer_id |-> last.frame.payload[last.frame.payload_size] % 32,
              payload_size |-> last.frame.payload_size - 1,
              payload |-> SubSeq(last.frame.payload, 1, last.frame.payload_size - 1)]

\* Node 20, whose subscription to the subject 100 holds the sessions of the nodes 10 and 11,
\* was given the anonymous message of that subject and returned the transfer.
C19_Witness ==
    /\ node_id = 20
    /\ last.op = "rx_accept" /\ last.ret = 1
    /\ last.frame = AnonymousMessage
    /\ last.out_transfer # <<>>
    /\ last.out_transfer.transfer_id = 5 /\ last.out_transfer.priority = 3
    /\ last.out_transfer.port_id = 100 /\ last.out_transfer.payload = <<170, 187>>
    /\ \E sub \in Range(SubscribedTo(last.frame)) : DOMAIN subs[sub].sessions = {10, 11}

\* C20: for a frame that is not anonymous, to whose kind and port a subscription is linked
\* and for whose source the session slot is empty: if the frame starts a transfer,
\* memory_allocate is called once; refused, the call returns -CANARD_ERROR_OUT_OF_MEMORY
\* and leaves the slot empty, and the same frame given again makes memory_allocate be called
\* once again and, granted, fills the slot; if the frame does not start a transfer, nothing
\* is allocated, the slot stays empty and the call returns 0.
C20_SessionAllocation ==
    (/\ last.op = "rx_accept"
     /\ ValidFrame(last.frame)
     /\ ~FrameAnonymous(last.frame) /\ ~MisAddressed(last.frame)
     /\ SubscribedTo(last.frame) # <<>>
     /\ FrameSource(last.frame) \notin DOMAIN last.pre_subs[SubscribedTo(last.frame)[1]].sessions)
    => LET sub == SubscribedTo(last.frame)[1]
           src == FrameSource(last.frame)
       IN IF TailBit(last.frame, 7)
          THEN /\ Len(last.allocs) = 1 /\ last.frees = <<>>
               /\ IF last.allocs[1] = NULL
                  THEN /\ last.ret = -CANARD_ERROR_OUT_OF_MEMORY
                       /\ src \notin DOMAIN subs[sub].sessions
                       /\ subs = last.pre_subs /\ heap = last.pre_heap
                       /\ rx_subscriptions = last.pre_rx_subscriptions
                       /\ \A fail \in 0..1 :
                             \E m \in {canardRxAccept(Start(fail), node_id, last.frame, 0, {})} :
                                /\ Len(m.allocs) = 1
                                /\ IF m.allocs[1] = NULL
                                   THEN m.ret = -CANARD_ERROR_OUT_OF_MEMORY /\ m.subs = subs
                                   ELSE m.ret = 0 /\ SessionAt(m.subs[sub], src) = m.allocs[1]
                  ELSE /\ last.ret = 0
                       /\ SessionAt(subs[sub], src) = last.allocs[1]
                       /\ heap[last.allocs[1]].t = "rxs"
          ELSE /\ last.ret = 0
               /\ Untouched
               /\ src \notin DOMAIN subs[sub].sessions

\* Node 20 was given the first frame of a transfer of node 11 while it held the session of
\* node 10 and a free block was left; the allocator refused the session.
C20_Witness ==
    /\ node_id = 20
    /\ last.op = "rx_accept" /\ last.ret = -CANARD_ERROR_OUT_OF_MEMORY
    /\ last.allocs = <<NULL>>
    /\ FrameSource(last.frame) = 11
    /\ \E sub \in Range(SubscribedTo(last.frame)) : DOMAIN subs[sub].sessions = {10}
    /\ Allocated(heap) # Addrs

\* Node 20 was given a frame of node 10 that does not start a transfer while the slot of
\* node 10 was empty and the one of node 11 was not.
C20_WitnessNoStart ==
    /\ node_id = 20
    /\ last.op = "rx_accept" /\ last.ret = 0
    /\ ValidFrame(last.frame) /\ ~TailBit(last.frame, 7)
    /\ \E sub \in Range(SubscribedTo(last.frame)) : DOMAIN subs[sub].sessions = {11}

\* The work records canardRxAccept leaves for each of the frames from the i-th on, given in
\* order to the instance m of the node rx_node_id.
RECURSIVE acceptEach(_, _, _, _)
acceptEach(m, rx_node_id, frames, i) ==
    IF i > Len(frames) THEN <<>>
    ELSE LET m1 == canardRxAccept([m EXCEPT !.allocs = <<>>, !.frees = <<>>], rx_node_id,
                                  ReceivedFrame(frames[i]), 0, {})
         IN <<m1>> \o acceptEach(m1, rx_node_id, frames, i + 1)

\* The frames of the most recent push given, one call each, to a receiver subscribed to the
\* transfer's kind and port; for a service transfer the receiver is the node addressed.
Reception ==
    acceptEach(Receiver(last.transfer.transfer_kind, last.transfer.port_id),
               IF last.transfer.transfer_kind = CanardTransferKindMessage
               THEN 99 ELSE last.transfer.remote_node_id,
               NewFrames, 1)

\* C21: the frames of a transfer pushed by a node that has a node-ID, given in order to
\* canardRxAccept of a receiver subscribed to the kind and port, make it return 0 for each
\* frame in front of the last and 1 for the last, with a transfer of the timestamp of the
\* first frame, the priority, kind and port of the frames, the sender's node-ID as the
\* remote node, the transfer-ID, and as its payload the bytes of the frames without tail
\* bytes and without the two bytes of the CRC of a multi-frame transfer.
C21_ReassemblyDelivers ==
    (/\ last.op = "tx_push" /\ last.ret > 0
     /\ node_id <= CANARD_NODE_ID_MAX
     /\ last.transfer.transfer_id <= CANARD_TRANSFER_ID_MAX) =>
       \E r \in {Reception} :
          LET n == Len(NewFrames)
              bytes == Len(NewStream) - (IF n > 1 THEN CRC_SIZE_BYTES ELSE 0)
          IN /\ Len(r) = n
             /\ \A i \in 1..(n - 1) : r[i].ret = 0
             /\ r[n].ret = 1
             /\ r[n].out_transfer # <<>>
             /\ r[n].out_transfer.timestamp_usec = NewFrames[1].timestamp_usec
             /\ r[n].out_transfer.priority = last.transfer.priority
             /\ r[n].out_transfer.transfer_kind = last.transfer.transfer_kind
             /\ r[n].out_transfer.port_id = last.transfer.port_id
             /\ r[n].out_transfer.remote_node_id = node_id
             /\ r[n].out_transfer.transfer_id = last.transfer.transfer_id
             /\ r[n].out_transfer.payload_size = bytes
             /\ r[n].out_transfer.payload = SubSeq(NewStream, 1, bytes)

\* What canardRxAccept does with those frames: it returns 0 for each of them, the last
\* included, and writes no transfer; the first frame has made it allocate the session.
C21_Observed ==
    (/\ last.op = "tx_push" /\ last.ret > 0
     /\ node_id <= CANARD_NODE_ID_MAX
     /\ last.transfer.transfer_id <= CANARD_TRANSFER_ID_MAX) =>
       \E r \in {Reception} :
          /\ Len(r) = Len(NewFrames)
          /\ \A i \in 1..Len(r) : r[i].ret = 0 /\ r[i].out_transfer = <<>>
          /\ Len(r[1].allocs) = 1
          /\ \A i \in 2..Len(r) : r[i].allocs = <<>>

\* The time, which the library knows from the timestamps of the frames only: that of the
\* frame the most recent call of canardRxAccept was given.
Now == last.frame.timestamp_usec

\* C22: when canardRxAccept has been given a frame, then for every linked subscription and
\* every source node-ID the session slot holds a session if and only if a transfer of that
\* source is in progress or the start of its most recent transfer is no longer ago than the
\* transfer-ID timeout of the subscription.
C22_SlotIffActive ==
    (last.op = "rx_accept" /\ AcceptArgumentsValid) =>
       \A sub \in LinkedSubs : \A src \in 0..CANARD_NODE_ID_MAX :
          (src \in DOMAIN subs[sub].sessions)
             <=> /\ src \in DOMAIN heard[sub]
                 /\ \/ heard[sub][src].open
                    \/ Now - heard[sub][src].start <= subs[sub].transfer_id_timeout_usec

\* The session of a source whose one-frame transfer started longer ago than the timeout is
\* still in its slot.
C22_Observed ==
    /\ node_id = 23
    /\ last.op = "rx_accept"
    /\ \E sub \in LinkedSubs :
          /\ 10 \in DOMAIN subs[sub].sessions
          /\ ~heard[sub][10].open
          /\ Now - heard[sub][10].start > subs[sub].transfer_id_timeout_usec

\* What the code keeps instead: a slot holds a session only if a frame that starts a
\* transfer of that source has reached the subscription since it was linked, and whatever
\* the time is a session leaves its slot only with the subscription.
C22_SlotUntilUnsubscribe ==
    /\ \A sub \in LinkedSubs : DOMAIN subs[sub].sessions \subseteq DOMAIN heard[sub]
    /\ last.op \in {"rx_accept", "tx_push", "tx_peek", "tx_pop"} =>
          \A sub \in SubObjs : \A src \in DOMAIN last.pre_subs[sub].sessions :
             /\ src \in DOMAIN subs[sub].sessions
             /\ subs[sub].sessions[src] = last.pre_subs[sub].sessions[src]

\* The CAN-ID of the frames of a transfer sent by the node n, by the arithmetic of its
\* fields: each field in its bits.
ExpectedID(t, n) ==
    IF t.transfer_kind = CanardTransferKindMessage
    THEN n + t.port_id * Pow2(8) + t.priority * Pow2(26)
    ELSE n + t.remote_node_id * Pow2(7) + t.port_id * Pow2(14) + Pow2(25) + t.priority * Pow2(26)
         + (IF t.transfer_kind = CanardTransferKindRequest THEN Pow2(24) ELSE 0)

\* C23: each frame queued by a successful canardTxPush of a node with a node-ID n has a
\* CAN-ID of at most 0x1FFFFFFF that is n | subject << 8 | priority << 26 for a message and
\* n | destination << 7 | service << 14 | 1 << 25 | priority << 26 for a service transfer,
\* with bit 24 set if and only if it is a request; the parser of canardRxAccept finds the
\* frame valid and reads from it the priority, the kind, the port-ID, the source n and the
\* destination: the remote node of a service transfer, none for a message.
C23_CANIDRoundTrip ==
    (last.op = "tx_push" /\ last.ret > 0 /\ node_id <= CANARD_NODE_ID_MAX) =>
       \A k \in 1..Len(NewFrames) :
          /\ NewFrames[k].extended_can_id <= 536870911
          /\ NewFrames[k].extended_can_id = ExpectedID(last.transfer, node_id)
          /\ IDBit(NewFrames[k], 24) <=> last.transfer.transfer_kind = CanardTransferKindRequest
          /\ \E parsed \in {tryParseFrame(ReceivedFrame(NewFrames[k]))} :
                /\ parsed.valid
                /\ parsed.model.priority = last.transfer.priority
                /\ parsed.model.transfer_kind = last.transfer.transfer_kind
                /\ parsed.model.port_id = last.transfer.port_id
                /\ parsed.model.source_node_id = node_id
                /\ parsed.model.destination_node_id =
                      IF last.transfer.transfer_kind = CanardTransferKindMessage
                      THEN CANARD_NODE_ID_UNSET ELSE last.transfer.remote_node_id

\* Node 42 has pushed the message of priority 4 and subject 7168: its frame has the CAN-ID
\* 0x101C002A.
C23_Witness ==
    /\ node_id = 42
    /\ last.op = "tx_push" /\ last.ret = 1
    /\ last.transfer.priority = 4 /\ last.transfer.port_id = 7168
    /\ Len(NewFrames) = 1
    /\ NewFrames[1].extended_can_id = 270270506

\* Node 0 has pushed a request of service 5 to node 10 in two frames.
C23_WitnessRequest ==
    /\ node_id = 0
    /\ last.op = "tx_push" /\ last.ret = 2
    /\ last.transfer.transfer_kind = CanardTransferKindRequest
    /\ Len(NewFrames) = 2
    /\ tryParseFrame(ReceivedFrame(NewFrames[2])).model.destination_node_id = 10

\* Byte sequences for the CRC: the payloads of the callers, every single byte, the pairs
\* of the bytes 0x00, 0x01, 0x80 and 0xFF, and the digits 1 to 9.
CheckString == <<49, 50, 51, 52, 53, 54, 55, 56, 57>>

CRCInputs ==
    Payloads \cup {<<b>> : b \in 0..BYTE_MAX} \cup {<<a, b>> : a, b \in {0, 1, 128, 255}}
    \cup {CheckString}

\* The CRC of the bytes followed by the high and then the low byte of their CRC.
Residue(p) ==
    LET c == crcAdd(CRC_INITIAL, p)
    IN crcAddByte(crcAddByte(c, c \div 256), c % 256)

\* The CRC over the bodies of the frames of the most recent push, joined in queue order.
StreamCRC ==
    crcAddFrom(crcAdd(CRC_INITIAL, SubSeq(NewStream, 1, last.transfer.payload_size)),
               NewStream, last.transfer.payload_size + 1)

\* C24: for every byte sequence p the CRC c of p from the initial value 0xFFFF is a number
\* of 16 bits, that of the digits 1 to 9 is 0x29B1 (polynomial 0x1021, not reflected, no
\* final inversion), and the CRC of p followed by the high and the low byte of c is 0; so the
\* CRC over the frame bodies of every multi-frame transfer canardTxPush has queued, padding
\* and CRC bytes included and the tail bytes left out, is 0, however many frames it takes.
C24_CRCResidue ==
    /\ last.op = "configure" =>
          /\ crcAdd(CRC_INITIAL, CheckString) = 10673
          /\ crcAddByte(0, 1) = 4129
          /\ \A p \in CRCInputs :
                /\ crcAdd(CRC_INITIAL, p) \in 0..65535
                /\ Residue(p) = 0
    /\ (last.op = "tx_push" /\ last.ret > 1) =>
          /\ Len(NewFrames) = last.ret
          /\ StreamCRC = 0

\* A request of 100 bytes was pushed on CAN FD: two frames, the second padded, and the CRC
\* over the 110 bytes in front of their tail bytes is 0.
C24_Witness ==
    /\ last.op = "tx_push" /\ last.ret = 2
    /\ last.transfer.payload_size = 100
    /\ mtu_bytes = CANARD_MTU_CAN_FD
    /\ Len(NewStream) > 102
    /\ StreamCRC = 0

\* The place of a queued item in the TX queue.
QueuePosition(a) == Position(TxQueue, a)

\* C25: the queued frames of one transfer stand in the TX queue side by side and in the
\* order in which canardTxPush made them, in every state, whatever was pushed before or
\* after them and whatever was popped: no frame of another transfer is between two of them.
\* A successful push adds all the frames of its transfer as one such block, and the frame at
\* the head of the queue is the first of those left of its transfer.
C25_TransferContiguous ==
    /\ Range(TxQueue) = UNION {Range(groups[g]) : g \in 1..Len(groups)}
    /\ \A g \in 1..Len(groups) :
          /\ groups[g] # <<>>
          /\ \A k \in 1..Len(groups[g]) :
                QueuePosition(groups[g][k]) = QueuePosition(groups[g][1]) + k - 1
          /\ \A k \in 1..Len(groups[g]) : heap[groups[g][k]].id = heap[groups[g][1]].id
    /\ (last.op = "tx_push" /\ last.ret > 0) =>
          /\ groups[Len(groups)] = NewItems
          /\ Len(NewItems) = last.ret
          /\ \A k \in 1..Len(NewItems) : QueuePosition(NewItems[k]) = QueuePosition(NewItems[1]) + k - 1
    /\ tx_queue # NULL => \E g \in 1..Len(groups) : groups[g][1] = tx_queue

\* Node 42 has pushed a message of one frame while the two frames of a response of a larger
\* CAN-ID were queued: the message stands in front of the two.
C25_Witness ==
    /\ node_id = 42
    /\ last.op = "tx_push" /\ last.ret = 1
    /\ Len(groups) = 2 /\ Len(groups[1]) = 2 /\ Len(groups[2]) = 1
    /\ TxQueue = groups[2] \o groups[1]

\* Node 1 has pushed a message of two frames while a frame of the same CAN-ID was queued.
C25_WitnessEqualID ==
    /\ node_id = 1
    /\ last.op = "tx_push" /\ last.ret = 2
    /\ Len(groups) = 2 /\ Len(groups[1]) = 1
    /\ heap[groups[1][1]].id = heap[groups[2][1]].id
    /\ TxQueue = groups[1] \o groups[2]

\* The first frame of a transfer of two was popped and a frame of a smaller CAN-ID pushed:
\* it stands in front of the frame that is left.
C25_WitnessPartlySent ==
    /\ last.op = "tx_push" /\ last.ret = 1
    /\ Len(groups) = 2 /\ Len(groups[1]) = 1
    /\ Bit(TailByte(FrameOf(heap, groups[1][1])), TAIL_START_OF_TRANSFER) = FALSE
    /\ TxQueue = groups[2] \o groups[1]

\* The most recent call of canardRxAccept was given a frame that starts a transfer of a
\* source whose session slot was empty, and the session was allocated.
SessionStarted ==
    /\ last.op = "rx_accept"
    /\ ValidFrame(last.frame)
    /\ ~FrameAnonymous(last.frame) /\ ~MisAddressed(last.frame)
    /\ SubscribedTo(last.frame) # <<>>
    /\ FrameSource(last.frame) \notin DOMAIN last.pre_subs[SubscribedTo(last.frame)[1]].sessions
    /\ TailBit(last.frame, 7)
    /\ Len(last.allocs) = 1 /\ last.allocs[1] # NULL

\* The bytes of the most recent frame in front of its tail byte.
LastBody == SubSeq(last.frame.payload, 1, last.frame.payload_size - 1)

\* C26: the session canardRxAccept makes for a frame that starts a transfer of a source with
\* an empty slot holds the timestamp of the frame, as its payload size the number of the
\* bytes of the frame's body it has taken in (all of them, or as many as the extent of the
\* subscription allows), a CRC that started at 0xFFFF, the toggle 0 expected of the next
\* frame (bit 5 of toggle_and_transfer_id clear) and the transfer-ID of the frame (bits 0..4).
C26_SessionAfterStart ==
    SessionStarted =>
       LET rxs == heap[last.allocs[1]]
           extent == subs[SubscribedTo(last.frame)[1]].payload_size_bytes_max
       IN /\ rxs.transfer_timestamp_usec = last.frame.timestamp_usec
          /\ rxs.payload_size = MinOf(Len(LastBody), extent)
          /\ rxs.calculated_crc \in {CRC_INITIAL, crcAdd(CRC_INITIAL, LastBody)}
          /\ (rxs.toggle_and_transfer_id \div TAIL_TOGGLE) % 2 = 0
          /\ rxs.toggle_and_transfer_id % TAIL_TOGGLE = last.frame.payload[last.frame.payload_size] % 32

\* What the session holds: the timestamp of the frame, no payload, the CRC 0xFFFF, and
\* TAIL_TOGGLE, which is the toggle bit set and the transfer-ID 0, whatever the frame carries.
C26_Observed ==
    SessionStarted =>
       heap[last.allocs[1]] =
          [t |-> "rxs", transfer_timestamp_usec |-> last.frame.timestamp_usec, payload_size |-> 0,
           payload |-> NULL, calculated_crc |-> CRC_INITIAL, toggle_and_transfer_id |-> TAIL_TOGGLE,
           iface_index |-> 0]

\* The frame with another tail byte.
WithTail(frame, tail) == [frame EXCEPT !.payload[Len(frame.payload)] = tail]

\* The frames of the most recent push, of a multi-frame transfer, as a receiver gets them
\* when the second is replaced by a frame of the same transfer-ID that neither starts nor
\* ends a transfer and has the toggle bit set, and the frames of the next transfer of the
\* same source follow: the same bytes under the next transfer-ID.
ToggleViolation ==
    LET tid == last.transfer.transfer_id
        nxt == (tid + 1) % (CANARD_TRANSFER_ID_MAX + 1)
    IN <<NewFrames[1], WithTail(NewFrames[2], TAIL_TOGGLE + tid)>>
       \o [k \in 1..Len(NewFrames) |-> WithTail(NewFrames[k], TailByte(NewFrames[k]) - tid + nxt)]

ToggleViolationReception ==
    acceptEach(Receiver(last.transfer.transfer_kind, last.transfer.port_id),
               IF last.transfer.transfer_kind = CanardTransferKindMessage
               THEN 99 ELSE last.transfer.remote_node_id,
               ToggleViolation, 1)

\* C27: when the frame that follows the first frame of a transfer has the transfer-ID of the
\* transfer and the toggle bit set, canardRxAccept returns 0 for it and frees nothing, and
\* the session stays in its slot; the frames of the next transfer of that source, given in
\* order, then make canardRxAccept return 0 up to the last and 1 for the last, with the
\* transfer of that transfer-ID and the payload of its frames.
C27_ToggleViolationRecovers ==
    (/\ last.op = "tx_push" /\ last.ret > 1
     /\ node_id <= CANARD_NODE_ID_MAX
     /\ last.transfer.transfer_id <= CANARD_TRANSFER_ID_MAX) =>
       \E r \in {ToggleViolationReception} :
          LET n == Len(NewFrames)
              slot == r[1].subs[1].sessions
          IN /\ Len(r) = n + 2
             /\ r[1].ret = 0 /\ node_id \in DOMAIN slot
             /\ r[2].ret = 0 /\ r[2].frees = <<>> /\ r[2].allocs = <<>>
             /\ r[2].subs[1].sessions = slot
             /\ \A i \in 3..(n + 1) : r[i].ret = 0
             /\ \A i \in 3..(n + 2) : r[i].frees = <<>> /\ r[i].subs[1].sessions = slot
             /\ r[n + 2].ret = 1
             /\ r[n + 2].out_transfer # <<>>
             /\ r[n + 2].out_transfer.transfer_id = (last.transfer.transfer_id + 1) % 32
             /\ r[n + 2].out_transfer.remote_node_id = node_id
             /\ r[n + 2].out_transfer.payload = SubSeq(NewStream, 1, Len(NewStream) - CRC_SIZE_BYTES)

\* What canardRxAccept does with those frames: it returns 0 for each of them and writes no
\* transfer; the session made for the first stays in its slot as it was made.
C27_Observed ==
    (/\ last.op = "tx_push" /\ last.ret > 1
     /\ node_id <= CANARD_NODE_ID_MAX
     /\ last.transfer.transfer_id <= CANARD_TRANSFER_ID_MAX) =>
       \E r \in {ToggleViolationReception} :
          /\ Len(r) = Len(NewFrames) + 2
          /\ \A i \in 1..Len(r) : r[i].ret = 0 /\ r[i].out_transfer = <<>> /\ r[i].frees = <<>>
          /\ \A i \in 2..Len(r) : r[i].allocs = <<>> /\ r[i].subs = r[1].subs /\ r[i].heap = r[1].heap

\* The largest payload size looked at by the properties of the frame sizes of canardTxPush.
MaxPayloadSize == 130

\* The arguments pushMultiFrameTransfer gives to roundFramePayloadSizeUp for the frames from
\* this offset of the payload and its CRC on: one for a frame that is not full, none for a
\* full frame.
RECURSIVE roundUpArgumentsFrom(_, _, _)
roundUpArgumentsFrom(offset, presentation_layer_mtu, payload_size_with_crc) ==
    IF ~(offset < payload_size_with_crc) THEN {}
    ELSE IF (payload_size_with_crc - offset) < presentation_layer_mtu
    THEN LET x == (payload_size_with_crc - offset) + 1
         IN {x} \cup (IF x \in 0..(Len(CanardCANLengthToDLC) - 1)
                      THEN roundUpArgumentsFrom(offset + roundFramePayloadSizeUp(x) - 1,
                                                presentation_layer_mtu, payload_size_with_crc)
                      ELSE {})
    ELSE roundUpArgumentsFrom(offset + presentation_layer_mtu, presentation_layer_mtu,
                              payload_size_with_crc)

\* The arguments canardTxPush gives to roundFramePayloadSizeUp when it pushes a payload of
\* this size through an instance with this mtu_bytes.
RoundUpArguments(mtu, payload_size) ==
    LET pl_mtu == getPresentationLayerMTU(mtu)
    IN IF payload_size <= pl_mtu
       THEN {payload_size + 1}
       ELSE roundUpArgumentsFrom(0, pl_mtu, payload_size + CRC_SIZE_BYTES)

\* C28: for every x in 0..64 DLCToLength[LengthToDLC[x]] is the smallest member of
\* {0..8, 12, 16, 20, 24, 32, 48, 64} that is >= x, so rounding a rounded length changes
\* nothing and no length shrinks; for every d in 0..15 LengthToDLC[DLCToLength[d]] = d;
\* every size canardTxPush gives to roundFramePayloadSizeUp is in 1..64, for every payload
\* size up to MaxPayloadSize and every mtu_bytes up to MaxMtuBytes, and the last frame of
\* every transfer pushed has the rounded size.
C28_DLCTables ==
    /\ Len(CanardCANLengthToDLC) = 65 /\ Len(CanardCANDLCToLength) = 16
    /\ \A x \in 0..64 :
          /\ LengthToDLCAt(x) \in 0..15
          /\ roundFramePayloadSizeUp(x) \in Range(CanardCANDLCToLength)
          /\ roundFramePayloadSizeUp(x) >= x
          /\ \A y \in Range(CanardCANDLCToLength) : y >= x => roundFramePayloadSizeUp(x) <= y
          /\ roundFramePayloadSizeUp(roundFramePayloadSizeUp(x)) = roundFramePayloadSizeUp(x)
    /\ Range(CanardCANDLCToLength) = (0..8) \cup {12, 16, 20, 24, 32, 48, 64}
    /\ \A d \in 0..15 : LengthToDLCAt(DLCToLengthAt(d)) = d
    /\ last.op = "configure" =>
          \A mtu \in 0..MaxMtuBytes : \A size \in 0..MaxPayloadSize :
             RoundUpArguments(mtu, size) \subseteq 1..64
    /\ (last.op = "tx_push" /\ last.ret > 0) =>
          LET args == RoundUpArguments(mtu_bytes, last.transfer.payload_size)
          IN /\ args \subseteq 1..64
             /\ Cardinality(args) <= 1
             /\ \A x \in args :
                   NewFrames[Len(NewFrames)].payload_size = roundFramePayloadSizeUp(x)
             /\ args = {} =>
                   NewFrames[Len(NewFrames)].payload_size = getPresentationLayerMTU(mtu_bytes) + 1

\* An instance whose mtu_bytes is 12 has pushed 13 bytes: 15 bytes with the CRC, 11 of them
\* in the first frame, and the 4 left make roundFramePayloadSizeUp(5) the size of the
\* second frame.
C28_Witness ==
    /\ mtu_bytes = 12
    /\ last.op = "tx_push" /\ last.ret = 2
    /\ last.transfer.payload_size = 13
    /\ RoundUpArguments(mtu_bytes, last.transfer.payload_size) = {5}
    /\ NewFrames[2].payload_size = 5
    /\ roundFramePayloadSizeUp(9) = 12 /\ LengthToDLCAt(12) = 9

\* An instance whose mtu_bytes is 255 has pushed 64 bytes: the 3 bytes behind the full
\* frame of 64 go into a frame of 4.
C28_WitnessLargeMTU ==
    /\ mtu_bytes = 255
    /\ last.op = "tx_push" /\ last.ret = 2
    /\ last.transfer.payload_size = 64
    /\ RoundUpArguments(mtu_bytes, last.transfer.payload_size) = {4}
    /\ NewFrames[1].payload_size = 64 /\ NewFrames[2].payload_size = 4

\* C29: whatever calls of canardRxSubscribe and canardRxUnsubscribe were made, with a
\* subscription object never linked twice, the list of each kind ends after no more objects
\* than there are, holds no object twice and no two subscriptions of one port-ID; a call for
\* one kind leaves the lists of the other kinds, their subscription objects and the sessions
\* of these as they were; and the object a subscribe call links is the head of the list of
\* its kind.
C29_SubscriptionLists ==
    /\ \A kind \in TransferKinds :
          LET walk == SubscriptionWalk(subs, rx_subscriptions[kind], Cardinality(SubObjs) + 1)
          IN /\ Len(walk) <= Cardinality(SubObjs)
             /\ \A i, j \in 1..Len(walk) :
                   i # j => /\ walk[i] # walk[j]
                            /\ subs[walk[i]].port_id # subs[walk[j]].port_id
             /\ walk = Subscriptions(kind)
    /\ last.op \in {"rx_subscribe", "rx_unsubscribe"} =>
          \A other \in TransferKinds \ {last.subscribe.transfer_kind} :
             /\ rx_subscriptions[other] = last.pre_rx_subscriptions[other]
             /\ Subscriptions(other) = PreSubscriptions(other)
             /\ \A sub \in Range(Subscriptions(other)) :
                   /\ subs[sub] = last.pre_subs[sub]
                   /\ \A rxs \in SessionsOf(subs, sub) : heap[rxs] = last.pre_heap[rxs]
    /\ (last.op = "rx_subscribe" /\ last.ret >= 0) =>
          /\ rx_subscriptions[last.subscribe.transfer_kind] = last.subscribe.out_subscription
          /\ Subscriptions(last.subscribe.transfer_kind)[1] = last.subscribe.out_subscription

\* The second object was subscribed to the subject 7 while the first was subscribed to the
\* subject 100: the second is the head of the list of the messages and the first is behind it.
C29_Witness ==
    /\ last.op = "rx_subscribe" /\ last.ret = 1
    /\ last.subscribe.transfer_kind = CanardTransferKindMessage
    /\ last.subscribe.port_id = 7
    /\ PreSubscriptions(CanardTransferKindMessage) = <<1>>
    /\ Subscriptions(CanardTransferKindMessage) = <<2, 1>>
    /\ subs[1].port_id = 100

\* The second object was subscribed to the requests of service 5 while the first, subscribed
\* to the subject 100, held a session: the list of the messages and the session are as
\* they were.
C29_WitnessOtherKind ==
    /\ last.op = "rx_subscribe" /\ last.ret = 1
    /\ last.subscribe.transfer_kind = CanardTransferKindRequest
    /\ Subscriptions(CanardTransferKindRequest) = <<2>>
    /\ Subscriptions(CanardTransferKindMessage) = <<1>>
    /\ SessionsOf(subs, 1) # {}
    /\ SessionsOf(subs, 1) = SessionsOf(last.pre_subs, 1)

\* The subscription to the subject 100 was removed while the second object was subscribed
\* to the requests of service 5: the list of the requests is as it was.
C29_WitnessUnsubscribe ==
    /\ last.op = "rx_unsubscribe" /\ last.ret = 1
    /\ last.subscribe.transfer_kind = CanardTransferKindMessage
    /\ PreSubscriptions(CanardTransferKindMessage) = <<1>>
    /\ Subscriptions(CanardTransferKindMessage) = <<>>
    /\ Subscriptions(CanardTransferKindRequest) = <<2>>

\* The most recent call was canardRxAccept with a frame that is not anonymous, is addressed
\* to this node and has a subscription of its kind and port linked.
AcceptedBySubscription ==
    /\ last.op = "rx_accept"
    /\ ValidFrame(last.frame)
    /\ ~FrameAnonymous(last.frame) /\ ~MisAddressed(last.frame)
    /\ SubscribedTo(last.frame) # <<>>

\* The session slot the frame of the most recent call belongs to was not empty when the call
\* began.
SlotOccupied ==
    /\ AcceptedBySubscription
    /\ FrameSource(last.frame) \in DOMAIN last.pre_subs[SubscribedTo(last.frame)[1]].sessions

\* C30: canardRxAccept calls memory_allocate at most once, and only for a frame that starts
\* a transfer and whose session slot, the one of its subscription and its source node-ID, is
\* empty; a frame whose slot holds a session, a frame that starts a transfer too, makes
\* nothing be allocated or freed and leaves the slot with the session it held; the slots of
\* the other sources and subscriptions are left as they were; so every subscription holds
\* at most one session for a source node-ID, at most SESSIONS_PER_SUBSCRIPTION in all, and
\* no session block is in two slots.
C30_SessionMemoryBounded ==
    /\ last.op = "rx_accept" =>
          /\ Len(last.allocs) <= 1
          /\ last.frees = <<>>
          /\ Len(last.allocs) = 1 =>
                /\ AcceptedBySubscription
                /\ ~SlotOccupied
                /\ TailBit(last.frame, 7)
          /\ rx_subscriptions = last.pre_rx_subscriptions
          /\ \A sub \in SubObjs : \A src \in 0..(SESSIONS_PER_SUBSCRIPTION - 1) :
                SessionAt(subs[sub], src) # SessionAt(last.pre_subs[sub], src) =>
                   /\ Len(last.allocs) = 1 /\ last.allocs[1] # NULL
                   /\ sub = SubscribedTo(last.frame)[1] /\ src = FrameSource(last.frame)
                   /\ SessionAt(last.pre_subs[sub], src) = NULL
                   /\ SessionAt(subs[sub], src) = last.allocs[1]
    /\ SlotOccupied =>
          LET sub == SubscribedTo(last.frame)[1]
              src == FrameSource(last.frame)
          IN /\ last.allocs = <<>> /\ last.frees = <<>>
             /\ SessionAt(subs[sub], src) = SessionAt(last.pre_subs[sub], src)
             /\ SessionAt(subs[sub], src) \in Allocated(heap)
             /\ heap[SessionAt(subs[sub], src)].t = "rxs"
             /\ subs = last.pre_subs
             /\ Allocated(heap) = Allocated(last.pre_heap)
    /\ \A sub \in SubObjs :
          /\ DOMAIN subs[sub].sessions \subseteq 0..(SESSIONS_PER_SUBSCRIPTION - 1)
          /\ Cardinality(SessionsOf(subs, sub)) = Cardinality(DOMAIN subs[sub].sessions)
          /\ Cardinality(SessionsOf(subs, sub)) <= SESSIONS_PER_SUBSCRIPTION
    /\ Cardinality({a \in Addrs : heap[a].t = "rxs"}) = Cardinality(HeldSlots)

\* Node 20 was given the single-frame message of node 10, which starts a transfer, while it
\* held the session of node 10 and a free block was left: nothing was allocated and the slot
\* holds the session it held.
C30_Witness ==
    /\ node_id = 20
    /\ SlotOccupied
    /\ last.frame = MessageFrom10
    /\ TailBit(last.frame, 7)
    /\ last.allocs = <<>>
    /\ Allocated(heap) # Addrs
    /\ \E sub \in Range(SubscribedTo(last.frame)) :
          /\ 10 \in DOMAIN subs[sub].sessions
          /\ subs[sub].sessions[10] = last.pre_subs[sub].sessions[10]

\* Node 20 holds the sessions of the nodes 10 and 11 under one subscription, in two blocks.
C30_WitnessTwoSources ==
    /\ node_id = 20
    /\ last.op = "rx_accept" /\ Len(last.allocs) = 1
    /\ \E sub \in SubObjs :
          /\ DOMAIN subs[sub].sessions = {10, 11}
          /\ subs[sub].sessions[10] # subs[sub].sessions[11]

\* ------------------------------------------------------------ the reception API and its callers

\* The largest redundant interface index the driver gives to canardRxAccept.
MaxIfaceIndex == 2

IfaceIndices == 0..MaxIfaceIndex

\* The subscriptions node 24 makes: to the subject 100 with its first subscription object,
\* to the responses and to the requests of service 5 with its second.
SubscribesNode24 ==
    { Subscribe(CanardTransferKindMessage, 100, 64, 2000000, 1),
      Subscribe(CanardTransferKindResponse, 5, 48, 1000000, 2),
      Subscribe(CanardTransferKindRequest, 5, 48, 1000000, 2) }

\* What reaches node 24 from the bus: of the subject 100 a transfer of one frame of node 10,
\* and a first, a middle and a last frame of it; a response of one frame and the first frame
\* of a request of node 10, a response to node 20, and anonymous messages of the subjects
\* 100 and 7.
BusNode24 ==
    { Accept(MessageFrom10),
      Accept(Frame(7100, MessageID(4, 100, 10), <<1, 2, 3, 4, 5, 6, 7, 162>>)),
      Accept(Frame(7200, MessageID(4, 100, 10), <<8, 9, 10, 11, 12, 13, 14, 2>>)),
      Accept(Frame(7300, MessageID(4, 100, 10), <<15, 16, 17, 98>>)),
      Accept(Frame(7000, ServiceID(2, 5, FALSE, 10, 24), <<1, 227>>)),
      Accept(Frame(7000, ServiceID(2, 5, TRUE, 10, 24), <<1, 2, 3, 4, 5, 6, 7, 163>>)),
      Accept(Frame(7000, ServiceID(2, 5, FALSE, 10, 20), <<1, 227>>)),
      Accept(AnonymousMessage),
      Accept(Frame(9000, AnonymousID(3, 7, 77), <<170, 187, 229>>)) }

\* What the application of a node that only receives does with its instance.
RxApplication(node) ==
    IF node = 24
    THEN [transfers |-> {}, subscribes |-> SubscribesNode24, accepts |-> BusNode24]
    ELSE Application(node)

\* The node-IDs and the values of mtu_bytes of the nodes that only receive.
RxConfigurations ==
    { <<21, CANARD_MTU_CAN_FD>>, <<24, CANARD_MTU_CAN_CLASSIC>>,
      <<CANARD_NODE_ID_UNSET, CANARD_MTU_CAN_FD>> }

\* canardRxAccept called by the driver of the redundant interface iface_index.
RxAcceptOn(frame, null_args, iface_index, fail) ==
    \E m \in {canardRxAccept(Start(fail), node_id, frame, iface_index, null_args)} :
       /\ heap' = m.heap
       /\ rx_subscriptions' = m.rx_subscriptions
       /\ subs' = m.subs
       /\ heard' = Hear(frame, null_args)
       /\ last' = [Call("rx_accept", m) EXCEPT !.frame = frame, !.null_args = null_args]
       /\ UNCHANGED <<node_id, mtu_bytes, tx_queue, pushed, deadlines, groups>>

NextRx ==
    \/ \E c \in RxConfigurations : Configure(c)
    \/ \E call \in RxApplication(node_id).accepts : \E iface_index \in IfaceIndices : \E fail \in AcceptFailPoints(call) : RxAcceptOn(call.frame, call.null_args, iface_index, fail)
    \/ \E s \in RxApplication(node_id).subscribes : RxSubscribe(s)
    \/ \E s \in RxApplication(node_id).subscribes : RxUnsubscribe(s.transfer_kind, s.port_id)

\* Any sequence of calls of the reception API on one instance, from any of its interfaces.
SpecRx == Init /\ [][NextRx]_vars

\* The instance as it was when the most recent call began, with an allocator that refuses
\* the fail-th request.
PreWork(fail) == Work(last.pre_heap, last.pre_queue, last.pre_rx_subscriptions, last.pre_subs, fail)

\* What the most recent call of canardRxAccept leaves when it is made with this interface
\* index: the result, the transfer, the blocks and the subscription objects.
AcceptOutcome(iface_index, fail) ==
    LET m == canardRxAccept(PreWork(fail), node_id, last.frame, iface_index, last.null_args)
    IN [ret |-> m.ret, out_transfer |-> m.out_transfer, heap |-> m.heap, subs |-> m.subs,
        rx_subscriptions |-> m.rx_subscriptions, allocs |-> m.allocs, frees |-> m.frees]

C31_WitnessResponse ==
    /\ node_id = 24
    /\ last.op = "rx_accept" /\ last.ret = -CANARD_ERROR_OUT_OF_MEMORY
    /\ FrameKind(last.frame) = CanardTransferKindResponse
    /\ SubscribedTo(last.frame) # <<>>
    /\ last.out_transfer = <<>>

\* Node 24 was given the anonymous message of the subject 100 while it held the session of
\* node 10 under its subscription to that subject, and returned the transfer.
C31_WitnessAnonymous ==
    /\ node_id = 24
    /\ last.op = "rx_accept" /\ last.ret = 1
    /\ last.frame = AnonymousMessage
    /\ last.out_transfer # <<>>
    /\ \E sub \in Range(SubscribedTo(last.frame)) : 10 \in DOMAIN subs[sub].sessions

\* Node 24, subscribed to the subject 100, was given the anonymous message of the subject 7
\* and returned 0.
C31_WitnessNotSubscribed ==
    /\ node_id = 24
    /\ last.op = "rx_accept" /\ last.ret = 0
    /\ ValidFrame(last.frame) /\ FrameAnonymous(last.frame)
    /\ SubscribedTo(last.frame) = <<>>
    /\ rx_subscriptions[CanardTransferKindMessage] # NULL

====
